---- MODULE Spec2Model ----
(***************************************************************************)
(* Model of repman (mipimipi/repman): the repository lock, the            *)
(* download -> work -> upload wrapper around the mutating operations of   *)
(* Repo (src/src/internal/repo.rs), and the three checks of clean_up.     *)
(***************************************************************************)
EXTENDS Integers, Sequences, FiniteSets, TLC

(* ------------------------------------------------------------------ *)
(* Bounds                                                              *)
(* ------------------------------------------------------------------ *)

\* Number of repman processes that exist for one repository.
NumProcs == 2

Procs == 1..NumProcs

\* The process whose operation Spec follows step by step.
Main == CHOOSE p \in Procs : \A q \in Procs : p <= q

\* process::id() of each process: distinct numbers with decimal
\* representations of different lengths (7, 42, 43, ...).
Pid(p) == IF p = 1 THEN 7 ELSE 40 + p

(* ------------------------------------------------------------------ *)
(* The lock file: text written by write!(f, "{}", process::id()) and   *)
(* read by pid_from_file                                               *)
(* ------------------------------------------------------------------ *)

NoFile == [ino |-> 0, data |-> <<>>]

RECURSIVE Format(_)
\* format!("{}", n) of a u32: the decimal digits, most significant first.
Format(n) == IF n < 10 THEN <<n>> ELSE Append(Format(n \div 10), n % 10)

RECURSIVE ParseDigits(_)
ParseDigits(s) ==
    IF Len(s) = 0 THEN 0
    ELSE 10 * ParseDigits(SubSeq(s, 1, Len(s) - 1)) + s[Len(s)]

\* str::parse::<u32>() fails on the empty string.
ParseFails(s) == Len(s) = 0

\* A write of `bytes` at offset 0 of a file holding `data`.
WriteAt0(data, bytes) == bytes \o SubSeq(data, Len(bytes) + 1, Len(data))

Range(s) == {s[i] : i \in 1..Len(s)}

Front(s) == SubSeq(s, 1, Len(s) - 1)

Last(s) == s[Len(s)]

(* ------------------------------------------------------------------ *)
(* State                                                               *)
(* ------------------------------------------------------------------ *)

VARIABLES
    lockFile,   \* the lock file of the repository: NoFile or [ino, data]
    inoCtr,     \* number of lock files created so far (inode numbers)
    fd,         \* fd[p]: inode of the file p opened with File::create
    alive,      \* processes other than the running ones that are alive
    remote,     \* server.is_remote()
    chroot,     \* chroot_dir.exists()
    tmpDir,     \* processes whose temporary directory exists
    db,         \* entries of the repository DB: [name, version, arch]
    files,      \* files in the local repository directory
    dbPkgs,     \* DB_PKGS of each process: the DB content it has read
    pc,         \* position of each process
    op,         \* operation each process executes and its flags
    calls,      \* call stack: frames [fn, base, retpc]
    guards,     \* scope guards registered by defer!, innermost last
    rv,         \* value being returned / propagated
    unwindTo,   \* number of guards that survive the current scope exit
    after,      \* what follows the scope exit: "return" or a position
    trace,      \* what the process has done so far
    result,     \* how the process ended: none, ok, err, panic, abort
    named,      \* the PID named by the error message of lock, 0 if none
    startedFree, \* no lock file existed when the operation was started
    sign,       \* Pkg::build: the parameter sign, <<>> for None and <<x>> for Some(x)
    gpgKey,     \* Pkg::build: gpg_key.is_some()
    pkgFiles,   \* Pkg::build: the files of pkg_files still to be processed
    pkgDir,     \* Pkg::build: files in pkg_dir
    pkg,        \* Pkg::build: the package being processed
    toBeSigned, \* Pkg::build: to_be_signed of the package being processed
    builtPkgs,  \* Pkg::build: pkgs, the packages collected so far
    skipped,    \* Pkg::build: the files reported as not built
    buildPc,    \* Pkg::build: position, "ok" and "err" when it has returned
    pkgbuilds,  \* add and update: the package lists of the PKGBUILD files still to be built
    built_pkgs, \* add and update: the packages the calls of Pkg::build have returned
    addPc,      \* add and update: position in the code that builds and adds
    repoLog,    \* the commands run and the errors reported
    pkg_names,  \* remove and sign: the parameter pkg_names, <<>> for None and <<l>> for Some(l)
    no_confirm, \* remove and update: the parameter no_confirm
    sign_db,    \* the field sign_db of the repository
    dbSigned,   \* is_db_signed(): signature files of the DB exist
    deps,       \* remove: the keys of deps, the names other packages depend on
    valid_pkg_names, \* remove and sign: the names still to be processed
    to_be_removed,   \* remove: to_be_removed_pkg_names
    cmdPc,      \* remove and sign: position, "ok", "err" and "panic" at the end
    pkg_name2base,   \* AurData: the pairs [name, pkg_base]
    pkg_infos,  \* AurData: one [pkg_base, version] per package base
    pkg_upds,   \* update: the result of pkg_updates
    pkg_bases,  \* update: the package bases still to be cloned
    pkg_repo_dirs,   \* update: the package repositories cloned
    force_no_version, \* update: the parameter force_no_version
    updPc,      \* update: position
    server,     \* the scheme of the URL of the repository: file, rsync, s3 or gs
    installed,  \* the packages is_pkg_installed finds
    remoteDir,  \* the files of the repository at the remote location
    syncPc,     \* download_repo and upload_repo: position
    db_name,    \* the field db_name of the repository
    path,       \* Pkg::try_from: the path, as characters
    fields      \* Pkg::try_from: <<>> or the captures of RE_PKG_FILE in a tuple

lockVars == <<lockFile, inoCtr, fd, alive>>
repoVars == <<db, files, dbPkgs>>
buildVars ==
    <<sign, gpgKey, pkgFiles, pkgDir, pkg, toBeSigned, builtPkgs, skipped, buildPc>>
unitVars == <<pkgbuilds, built_pkgs, addPc>>
cmdVars ==
    <<pkg_names, no_confirm, sign_db, dbSigned, deps, valid_pkg_names, to_be_removed, cmdPc>>
aurVars ==
    <<pkg_name2base, pkg_infos, pkg_upds, pkg_bases, pkg_repo_dirs, force_no_version, updPc>>
srvVars == <<server, installed, remoteDir, syncPc>>
auxVars == <<db_name, path, fields>>
pkgVars == <<buildVars, unitVars, repoLog, cmdVars, aurVars, srvVars, auxVars>>
envVars == <<remote, chroot, tmpDir, repoVars, pkgVars>>
ctlVars == <<pc, op, calls, guards, rv, unwindTo, after, trace, result, named,
             startedFree>>

(* ------------------------------------------------------------------ *)
(* Operations                                                          *)
(* ------------------------------------------------------------------ *)

\* Operations wrapped in lock! and exec_on_repo!.
TxOps == {"clean_up", "remove", "sign", "update", "add"}

\* Operations that take the lock.
MutatingOps == TxOps \cup {"make_chroot", "remove_cache_dir", "remove_chroot_dir"}

AllOps == MutatingOps \cup {"list"}

\* -c/--clean and -n/--nochroot of add and update; main rejects both set.
Modes == {"nochroot", "chroot", "clean"}

OpRecords ==
    {[name |-> n, mode |-> "nochroot"] : n \in AllOps \ {"add", "update"}}
    \cup {[name |-> n, mode |-> m] : n \in {"add", "update"}, m \in Modes}

NoOp == [name |-> "none", mode |-> "nochroot"]

Repl(f, p, v) == [f EXCEPT ![p] = v]

Log(p, events) == trace' = Repl(trace, p, trace[p] \o events)

Did(p, e) == e \in Range(trace[p])

TopFrame(p) == Last(calls[p])

\* `return` or `?` in the current function: its guards are dropped, innermost
\* first, and the value goes to the caller.
Ret(p, val) ==
    /\ pc' = Repl(pc, p, "unwind")
    /\ rv' = Repl(rv, p, val)
    /\ unwindTo' = Repl(unwindTo, p, TopFrame(p).base)
    /\ after' = Repl(after, p, "return")

\* panic!: with the default unwinding, the guards of all frames are dropped; a
\* panic while a panic unwinds aborts the process at once.
Panic(p) ==
    IF rv[p] = "panic"
    THEN /\ pc' = Repl(pc, p, "done")
         /\ result' = Repl(result, p, "abort")
         /\ UNCHANGED <<rv, unwindTo, after>>
    ELSE /\ pc' = Repl(pc, p, "unwind")
         /\ rv' = Repl(rv, p, "panic")
         /\ unwindTo' = Repl(unwindTo, p, 0)
         /\ after' = Repl(after, p, "return")
         /\ UNCHANGED result

\* Where each operation starts.
Entry(name) ==
    CASE name \in {"clean_up", "remove", "sign", "update", "make_chroot"} -> "lock.exists"
      [] name = "add" -> "add"
      [] name = "remove_cache_dir" -> "remove_cache_dir"
      [] name = "remove_chroot_dir" -> "remove_chroot_dir"
      [] name = "list" -> "download"

\* The statement after lock!(self) in each function.
AfterLock(fn) ==
    CASE fn \in TxOps -> "download"
      [] fn = "make_chroot" -> "make_chroot"
      [] fn = "remove_cache_dir" -> "rcache.rm"
      [] fn = "remove_chroot_dir" -> "rcd.rm"

\* The code block handed to exec_on_repo!.
Work(name) ==
    CASE name = "clean_up" -> "clean_up"
      [] name = "remove" -> "remove"
      [] name = "sign" -> "sign"
      [] name = "update" -> "update"
      [] name = "add" -> "add.build"
      [] name = "list" -> "list"

(* ------------------------------------------------------------------ *)
(* The repository directory and the DB                                 *)
(*                                                                     *)
(* A file name is [segs, ext]: the segments that the dashes of the     *)
(* name separate, and the parts that follow the dots after the last    *)
(* segment. A package name and a version of the DB are sequences of    *)
(* segments too: "a-b" is <<"a", "b">>, version "2-1" is <<"2", "1">>. *)
(* ------------------------------------------------------------------ *)

\* pkg_ext(): PKGEXT of makepkg.conf, ".pkg.tar.zst".
PkgExt == <<"pkg", "tar", "zst">>

\* SIG_SUFFIX
SigExt == "sig"

Archs == {"x86_64"}

PkgNames == {<<"a">>, <<"a", "b">>}

\* <pkgver>-<pkgrel>
Versions == {<<"1", "1">>, <<"2", "1">>}

DbEntries == [name : PkgNames, version : Versions, arch : Archs]

\* A PkgMap has one entry per package name.
Dbs == {d \in SUBSET DbEntries : \A e1 \in d : \A e2 \in d : e1.name = e2.name => e1 = e2}

DbNames(d) == {e.name : e \in d}

\* format!("{}/{}-{}-{}{}", local_dir, name, version, arch, pkg_ext)
MetaDataPath(name, version, arch, ext) ==
    [segs |-> name \o version \o <<arch>>, ext |-> ext]

\* RE_PKG_FILE: ^(.*/)?(.+)-([^-]+)-([^-]+)-([^-]+)(\.pkg\.tar\.[^\.]+)$
IsMatch(f) ==
    /\ Len(f.segs) >= 4
    /\ Len(f.ext) = 3
    /\ f.ext[1] = "pkg"
    /\ f.ext[2] = "tar"

\* Pkg::try_from(file): Err when the file does not exist or when its name does
\* not match RE_PKG_FILE.
TryFromFails(f, dir) == f \notin dir \/ ~IsMatch(f)

\* Variant of from_meta_data that accepts a package file of any version.
FromMetaDataFails_AnyVersion(e, dir, ext) ==
    ~\E v \in Versions : ~TryFromFails(MetaDataPath(e.name, v, e.arch, ext), dir)

\* Pkg::from_meta_data(...).is_err()
FromMetaDataFails(e, dir, ext) ==
    TryFromFails(MetaDataPath(e.name, e.version, e.arch, ext), dir)

\* Pkg::name: capture group 2 of RE_PKG_FILE.
PkgName(f) == SubSeq(f.segs, 1, Len(f.segs) - 3)

\* glob("{local_dir}/*-*-*-*{pkg_ext}")
GlobPkgFiles(dir, ext) == {f \in dir : Len(f.segs) >= 4 /\ f.ext = ext}

\* glob("{local_dir}/*.sig")
GlobSigFiles(dir) == {f \in dir : Len(f.ext) > 0 /\ Last(f.ext) = SigExt}

\* Variant of with_extension that leaves the path as it is.
WithExtension_Unchanged(f) == f

\* Path::with_extension("")
WithExtension(f) == [f EXCEPT !.ext = Front(@)]

\* The files a repository directory holds in the model: package files, their
\* signature files, and a file whose name has too few dashes for a package file.
PkgFiles == {MetaDataPath(e.name, e.version, e.arch, PkgExt) : e \in DbEntries}

SigFiles == {[f EXCEPT !.ext = Append(@, SigExt)] : f \in PkgFiles}

OtherFile == [segs |-> <<"a", "1", "x86_64">>, ext |-> PkgExt]

AllFiles == PkgFiles \cup SigFiles \cup {OtherFile}

\* A repository with an entry without file, a file without entry and a
\* signature without file.
DirtyDb == {[name |-> <<"a">>, version |-> <<"1", "1">>, arch |-> "x86_64"]}

DirtyFiles ==
    {MetaDataPath(<<"a", "b">>, <<"1", "1">>, "x86_64", PkgExt),
     MetaDataPath(<<"a">>, <<"2", "1">>, "x86_64", Append(PkgExt, SigExt))}


(* ------------------------------------------------------------------ *)
(* Package files, patterns and regular expressions of Pkg::build       *)
(* ------------------------------------------------------------------ *)

\* Package names built in the model. '+' is a character of package names and
\* an operator of regular expressions.
BuildNames == {<<"a">>, <<"a", "b">>, <<"m+">>}

BuildArch == "x86_64"

\* The version `makepkg --packagelist` reports.
ListedVersion == <<"1", "1">>

\* The characters of a component of a file name; a component of letters and
\* digits only is taken as one character.
Chars(w) ==
    IF w = "m+" THEN <<"m", "+">>
    ELSE IF w = "github" THEN <<"git", "hub">>
    ELSE <<w>>

\* The components of `segs` joined by `sep`, as characters.
RECURSIVE Join(_, _)
Join(segs, sep) ==
    IF segs = <<>> THEN <<>>
    ELSE IF Len(segs) = 1 THEN Chars(segs[1])
    ELSE Chars(segs[1]) \o <<sep>> \o Join(Tail(segs), sep)

\* The file name of f.
FileText(f) == Join(f.segs, "-") \o (IF f.ext = <<>> THEN <<>> ELSE <<".">> \o Join(f.ext, "."))

\* Byte value of the first byte of a character of the model.
Code(c) ==
    CASE c = "+" -> 43 [] c = "-" -> 45 [] c = "." -> 46
      [] c = "1" -> 49 [] c = "2" -> 50
      [] c = "a" -> 97 [] c = "b" -> 98 [] c = "m" -> 109
      [] c = "pkg" -> 112 [] c = "sig" -> 115 [] c = "tar" -> 116
      [] c = "x86_64" -> 120 [] c = "zst" -> 122

\* s sorts before t: the order glob yields the paths of a directory in.
RECURSIVE Less(_, _)
Less(s, t) ==
    IF t = <<>> THEN FALSE
    ELSE IF s = <<>> THEN TRUE
    ELSE IF s[1] # t[1] THEN Code(s[1]) < Code(t[1])
    ELSE Less(Tail(s), Tail(t))

\* The first path of glob(pattern) among the matching files `matching`.
FirstOf(matching) ==
    CHOOSE f \in matching : \A g \in matching \ {f} : Less(FileText(f), FileText(g))

\* Regular expression `re` of literal characters and the operator + matches
\* all of the text s.
RECURSIVE ReMatch(_, _)
ReMatch(re, s) ==
    IF re = <<>> THEN s = <<>>
    ELSE IF s = <<>> THEN FALSE
    ELSE IF Len(re) >= 2 /\ re[2] = "+"
         THEN /\ s[1] = re[1]
              /\ \/ ReMatch(Tail(Tail(re)), Tail(s))
                 \/ ReMatch(re, Tail(s))
    ELSE s[1] = re[1] /\ ReMatch(Tail(re), Tail(s))

\* pattern_ignore_version(file, dir): "{dir}/{name}-*-*-{arch}{ext}" from the
\* capture groups 2, 5 and 6 of RE_PKG_FILE.
PatternIgnoreVersion(f) == [name |-> PkgName(f), arch |-> Last(f.segs), ext |-> f.ext]

\* pattern + SIG_SUFFIX
PatternSig(pat) == [pat EXCEPT !.ext = Append(@, SigExt)]

\* glob: f matches "{name}-*-*-{arch}{ext}", where * matches any characters.
GlobMatches(pat, f) ==
    /\ Len(f.segs) >= Len(pat.name) + 3
    /\ SubSeq(f.segs, 1, Len(pat.name)) = pat.name
    /\ Last(f.segs) = pat.arch
    /\ f.ext = pat.ext

\* glob: f matches "{name}-*-*-{arch}{ext}*".
GlobMatchesPrefix(pat, f) ==
    /\ Len(f.segs) >= Len(pat.name) + 3
    /\ SubSeq(f.segs, 1, Len(pat.name)) = pat.name
    /\ Last(f.segs) = pat.arch
    /\ Len(f.ext) >= Len(pat.ext)
    /\ SubSeq(f.ext, 1, Len(pat.ext)) = pat.ext

\* re_pkg_or_sig_file of remove_from_dir:
\* ^(.*/)?{name}-([^-]+)-([^-]+)-([^-]+)(\.pkg\.tar\.[^\.]+)(.sig)?$
\* with the package name put into the expression as it is.
RePkgOrSigFile(name, f) ==
    /\ Len(f.segs) >= 4
    /\ ReMatch(Join(name, "-"), Join(PkgName(f), "-"))
    /\ Len(f.ext) \in {3, 4}
    /\ f.ext[1] = "pkg"
    /\ f.ext[2] = "tar"
    /\ Len(f.ext) = 4 => f.ext[4] = SigExt

\* path + SIG_SUFFIX
SigFile(f) == [f EXCEPT !.ext = Append(@, SigExt)]

BuildFile(name, version) == MetaDataPath(name, version, BuildArch, PkgExt)

\* The package lists of the PKGBUILD files of the model: no package, one
\* package, a split package.
PkgLists == {<<>>, <<<<"a">>>>, <<<<"a">>, <<"a", "b">>>>, <<<<"m+">>>>}

\* The files the repository directory can hold before a build.
BuildRepoFiles ==
    {BuildFile(n, v) : n \in BuildNames, v \in Versions}
    \cup {SigFile(BuildFile(n, ListedVersion)) : n \in BuildNames}

NoPkg == [segs |-> <<>>, ext |-> <<>>]

(* ------------------------------------------------------------------ *)
(* Versions and AUR data of update                                     *)
(* ------------------------------------------------------------------ *)

\* A version [epoch:]pkgver-pkgrel with the numeric segments of pkgver.
Version(epoch, ver, rel) == [epoch |-> epoch, ver |-> ver, rel |-> rel]

\* 1.9-1, 1.10-1, 1.10-2 and 1:1.0-1
UpdVersions ==
    {Version(0, <<1, 9>>, 1), Version(0, <<1, 10>>, 1), Version(0, <<1, 10>>, 2),
     Version(1, <<1, 0>>, 1)}

\* Comparison of pkgver segment by segment; of two versions of which one is
\* a prefix of the other the longer one is the newer.
RECURSIVE SegCmp(_, _)
SegCmp(a, b) ==
    IF a = <<>> /\ b = <<>> THEN "Equal"
    ELSE IF a = <<>> THEN "Less"
    ELSE IF b = <<>> THEN "Greater"
    ELSE IF Head(a) < Head(b) THEN "Less"
    ELSE IF Head(a) > Head(b) THEN "Greater"
    ELSE SegCmp(Tail(a), Tail(b))

\* alpm::vercmp(a, b): epoch, then pkgver, then pkgrel.
VerCmp(a, b) ==
    IF a.epoch # b.epoch THEN (IF a.epoch < b.epoch THEN "Less" ELSE "Greater")
    ELSE IF SegCmp(a.ver, b.ver) # "Equal" THEN SegCmp(a.ver, b.ver)
    ELSE IF a.rel < b.rel THEN "Less"
    ELSE IF a.rel > b.rel THEN "Greater"
    ELSE "Equal"

\* The packages of the update model: the two packages of a split package and
\* a package built from a version control system.
UpdNames == {<<"pkg", "a">>, <<"pkg", "b">>, <<"c", "git">>}

\* PackageBase of the AUR item of a name.
BaseOf(n) == IF n = <<"c", "git">> THEN "c-git" ELSE "base1"

UpdBases == {BaseOf(n) : n \in UpdNames}

\* The versions of the package built from a version control system.
VcsVersions == {Version(0, <<1, 9>>, 1), Version(0, <<1, 10>>, 1)}

VersionsOf(n) == IF n = <<"c", "git">> THEN VcsVersions ELSE UpdVersions

UpdDbEntries == {e \in [name : UpdNames, version : UpdVersions, arch : Archs] :
                   e.version \in VersionsOf(e.name)}

UpdDbs ==
    {d \in SUBSET UpdDbEntries : \A e1 \in d : \A e2 \in d : e1.name = e2.name => e1 = e2}

\* vcs_suffixes of the configuration.
VcsSuffixes == {"git"}

\* Regex ".+-(git)", is_match: somewhere in the name there is a hyphen that
\* is not its first character, followed by the suffix.
IsNoVersionName(n) == \E i \in 2..Len(n) : Head(Chars(n[i])) \in VcsSuffixes

\* The version the DB records for the name n.
DbVersion(n, d) == (CHOOSE e \in d : e.name = n).version

\* The version pkg_infos holds for the package base b.
InfoVersion(b, infos) == (CHOOSE i \in infos : i.pkg_base = b).version

\* Variant of the entries of pkg_updates that also takes equal versions.
PkgUpdSet_NotGreater(name2base, infos, d) ==
    {[name |-> p.name,
      old_version |-> DbVersion(p.name, d),
      new_version |-> InfoVersion(p.pkg_base, infos),
      pkg_base |-> p.pkg_base] :
        p \in {q \in name2base :
                 VerCmp(DbVersion(q.name, d), InfoVersion(q.pkg_base, infos)) # "Greater"}}

\* The entries of pkg_updates(db_pkgs): one PkgUpd per pair of pkg_name2base
\* whose DB version is vercmp-less than the version of its package base.
PkgUpdSet(name2base, infos, d) ==
    {[name |-> p.name,
      old_version |-> DbVersion(p.name, d),
      new_version |-> InfoVersion(p.pkg_base, infos),
      pkg_base |-> p.pkg_base] :
        p \in {q \in name2base :
                 VerCmp(DbVersion(q.name, d), InfoVersion(q.pkg_base, infos)) = "Less"}}

\* The pairs of pkg_name2base_no_version().
NoVersionSet(name2base) == {p \in name2base : IsNoVersionName(p.name)}

\* An entry of repoLog: a command that was run with the package files it was
\* given, or an error that was reported.
Event(e) == [ev |-> e, pkgs |-> <<>>]

\* The events e of the log.
EventsOf(log, e) == {i \in 1..Len(log) : log[i].ev = e}

\* add and update are not building.
NoUnits ==
    /\ pkgbuilds = <<>>
    /\ built_pkgs = <<>>
    /\ addPc = "idle"
    /\ repoLog = <<>>

\* remove and sign are not running.
NoCmd ==
    /\ pkg_names = <<>>
    /\ no_confirm = FALSE
    /\ sign_db = FALSE
    /\ dbSigned = FALSE
    /\ deps = {}
    /\ valid_pkg_names = <<>>
    /\ to_be_removed = <<>>
    /\ cmdPc = "idle"

\* The name of the repository in the configuration.
RepoName == "repo"

\* download_repo and upload_repo are not running and no path is parsed.
NoSync ==
    /\ server = "file"
    /\ installed = {}
    /\ remoteDir = {}
    /\ syncPc = "idle"
    /\ db_name = RepoName
    /\ path = <<>>
    /\ fields = <<>>

\* No data was retrieved from AUR.
NoAur ==
    /\ pkg_name2base = {}
    /\ pkg_infos = {}
    /\ pkg_upds = <<>>
    /\ pkg_bases = <<>>
    /\ pkg_repo_dirs = <<>>
    /\ force_no_version = FALSE
    /\ updPc = "idle"

\* Pkg::build is not running.
NoBuild ==
    /\ sign = <<>>
    /\ gpgKey = FALSE
    /\ pkgFiles = <<>>
    /\ pkgDir = {}
    /\ pkg = NoPkg
    /\ toBeSigned = FALSE
    /\ builtPkgs = <<>>
    /\ skipped = <<>>
    /\ buildPc = "idle"

Init ==
    /\ \E holder \in {0} \cup Procs, written \in BOOLEAN, a \in BOOLEAN :
          /\ lockFile = IF holder = 0 THEN NoFile
                        ELSE [ino |-> 1,
                              data |-> IF written THEN Format(Pid(holder)) ELSE <<>>]
          /\ (holder = 0 => written /\ ~a)
          /\ (a => holder # Main /\ written)
          /\ alive = IF a THEN {holder} ELSE {}
          /\ inoCtr = IF holder = 0 THEN 0 ELSE 1
    /\ fd = [p \in Procs |-> 0]
    /\ remote \in BOOLEAN
    /\ chroot \in BOOLEAN
    /\ tmpDir = {}
    /\ db = DirtyDb
    /\ files = DirtyFiles
    /\ dbPkgs = [p \in Procs |-> {}]
    /\ NoBuild
    /\ NoUnits
    /\ NoCmd
    /\ NoAur
    /\ NoSync
    /\ pc = [p \in Procs |-> "idle"]
    /\ op = [p \in Procs |-> NoOp]
    /\ calls = [p \in Procs |-> <<>>]
    /\ guards = [p \in Procs |-> <<>>]
    /\ rv = [p \in Procs |-> "none"]
    /\ unwindTo = [p \in Procs |-> 0]
    /\ after = [p \in Procs |-> "return"]
    /\ trace = [p \in Procs |-> <<>>]
    /\ result = [p \in Procs |-> "none"]
    /\ named = [p \in Procs |-> 0]
    /\ startedFree = [p \in Procs |-> FALSE]

\* main: execute() dispatches one sub-command, one of `ops`, to a method of Repo.
StartOp(p, ops) ==
    /\ pc[p] = "idle"
    /\ \E o \in ops :
          /\ op' = Repl(op, p, o)
          /\ pc' = Repl(pc, p, Entry(o.name))
          /\ calls' = Repl(calls, p, <<[fn |-> o.name, base |-> 0, retpc |-> "none"]>>)
    /\ startedFree' = Repl(startedFree, p, lockFile = NoFile)
    /\ UNCHANGED <<lockVars, envVars, guards, rv, unwindTo, after, trace, result, named>>

Start(p) == StartOp(p, OpRecords)

(* ------------------------------------------------------------------ *)
(* Repo::lock, one action per file-system call                         *)
(* ------------------------------------------------------------------ *)

\* lock_file.exists()
LockExists(p) ==
    /\ pc[p] = "lock.exists"
    /\ pc' = Repl(pc, p, IF lockFile # NoFile THEN "lock.read" ELSE "lock.create")
    /\ UNCHANGED <<lockVars, envVars, op, calls, guards, rv, unwindTo, after, trace,
                   result, named,
                   startedFree>>

\* Mutant of LockRead: the error of lock() is not propagated by lock!.
LockRead_NoPropagate(p) ==
    /\ pc[p] = "lock.read"
    /\ IF lockFile = NoFile \/ ParseFails(lockFile.data)
          \/ ParseDigits(lockFile.data) # Pid(p)
       THEN Log(p, <<"lock_err">>)
       ELSE Log(p, <<"lock">>)
    /\ guards' = Repl(guards, p, Append(guards[p], "unlock"))
    /\ pc' = Repl(pc, p, AfterLock(TopFrame(p).fn))
    /\ UNCHANGED <<rv, unwindTo, after, named>>
    /\ UNCHANGED <<lockVars, envVars, op, calls, result, startedFree>>

\* Mutant of LockRead: the lock of a process that is not alive is taken over.
LockRead_BreakStale(p) ==
    /\ pc[p] = "lock.read"
    /\ IF lockFile = NoFile \/ ParseFails(lockFile.data)
       THEN /\ Log(p, <<"lock_err">>)
            /\ Ret(p, "err")
            /\ UNCHANGED <<guards, named>>
       ELSE IF ParseDigits(lockFile.data) # Pid(p)
       THEN IF \E q \in alive : Pid(q) = ParseDigits(lockFile.data)
            THEN /\ Log(p, <<"lock_err">>)
                 /\ named' = Repl(named, p, ParseDigits(lockFile.data))
                 /\ Ret(p, "err")
                 /\ UNCHANGED guards
            ELSE /\ pc' = Repl(pc, p, "lock.create")
                 /\ UNCHANGED <<trace, guards, rv, unwindTo, after, named>>
       ELSE /\ Log(p, <<"lock">>)
            /\ guards' = Repl(guards, p, Append(guards[p], "unlock"))
            /\ pc' = Repl(pc, p, AfterLock(TopFrame(p).fn))
            /\ UNCHANGED <<rv, unwindTo, after, named>>
    /\ UNCHANGED <<lockVars, envVars, op, calls, result, startedFree>>

\* Mutant of LockRead: a lock file with the own PID is reported as a lock too.
LockRead_NoReentry(p) ==
    /\ pc[p] = "lock.read"
    /\ IF lockFile = NoFile \/ ParseFails(lockFile.data)
       THEN /\ Log(p, <<"lock_err">>)
            /\ UNCHANGED named
       ELSE /\ Log(p, <<"lock_err">>)
            /\ named' = Repl(named, p, ParseDigits(lockFile.data))
    /\ Ret(p, "err")
    /\ UNCHANGED <<lockVars, envVars, op, calls, guards, result, startedFree>>

\* pid_from_file(&lock_file)? and the comparison with process::id(); on Ok the
\* lock! macro registers the guard that calls unlock.
LockRead(p) ==
    /\ pc[p] = "lock.read"
    /\ IF lockFile = NoFile \/ ParseFails(lockFile.data)
       THEN /\ Log(p, <<"lock_err">>)
            /\ Ret(p, "err")
            /\ UNCHANGED <<guards, named>>
       ELSE IF ParseDigits(lockFile.data) # Pid(p)
       THEN /\ Log(p, <<"lock_err">>)
            /\ named' = Repl(named, p, ParseDigits(lockFile.data))
            /\ Ret(p, "err")
            /\ UNCHANGED guards
       ELSE /\ Log(p, <<"lock">>)
            /\ guards' = Repl(guards, p, Append(guards[p], "unlock"))
            /\ pc' = Repl(pc, p, AfterLock(TopFrame(p).fn))
            /\ UNCHANGED <<rv, unwindTo, after, named>>
    /\ UNCHANGED <<lockVars, envVars, op, calls, result, startedFree>>

\* fs::File::create(lock_file): creates the file, or truncates the existing one.
LockCreate(p) ==
    /\ pc[p] = "lock.create"
    /\ IF lockFile = NoFile
       THEN /\ inoCtr' = inoCtr + 1
            /\ lockFile' = [ino |-> inoCtr + 1, data |-> <<>>]
            /\ fd' = Repl(fd, p, inoCtr + 1)
       ELSE /\ lockFile' = [lockFile EXCEPT !.data = <<>>]
            /\ fd' = Repl(fd, p, lockFile.ino)
            /\ UNCHANGED inoCtr
    /\ pc' = Repl(pc, p, "lock.write")
    /\ UNCHANGED <<alive, envVars, op, calls, guards, rv, unwindTo, after, trace,
                   result, named,
                   startedFree>>

\* Mutant of LockWrite: lock! does not register the guard that calls unlock.
LockWrite_NoGuard(p) ==
    /\ pc[p] = "lock.write"
    /\ lockFile' = IF lockFile # NoFile /\ lockFile.ino = fd[p]
                   THEN [lockFile EXCEPT !.data = WriteAt0(@, Format(Pid(p)))]
                   ELSE lockFile
    /\ Log(p, <<"lock">>)
    /\ pc' = Repl(pc, p, AfterLock(TopFrame(p).fn))
    /\ UNCHANGED <<inoCtr, fd, alive, envVars, op, calls, guards, rv, unwindTo, after,
                   result, named, startedFree>>

\* write!(f, "{}", process::id()), then Ok(()); the lock! macro registers the
\* guard that calls unlock.
LockWrite(p) ==
    /\ pc[p] = "lock.write"
    /\ lockFile' = IF lockFile # NoFile /\ lockFile.ino = fd[p]
                   THEN [lockFile EXCEPT !.data = WriteAt0(@, Format(Pid(p)))]
                   ELSE lockFile
    /\ Log(p, <<"lock">>)
    /\ guards' = Repl(guards, p, Append(guards[p], "unlock"))
    /\ pc' = Repl(pc, p, AfterLock(TopFrame(p).fn))
    /\ UNCHANGED <<inoCtr, fd, alive, envVars, op, calls, rv, unwindTo, after,
                   result, named,
                   startedFree>>

(* ------------------------------------------------------------------ *)
(* Repo::unlock, called by the guard of lock!                          *)
(* ------------------------------------------------------------------ *)

\* lock_file.exists()
UnlockExists(p) ==
    /\ pc[p] = "unlock.exists"
    /\ pc' = Repl(pc, p, IF lockFile # NoFile THEN "unlock.read" ELSE "unlock.remove")
    /\ UNCHANGED <<lockVars, envVars, op, calls, guards, rv, unwindTo, after, trace,
                   result, named,
                   startedFree>>

\* Mutant of UnlockRead: the owner check is missing.
UnlockRead_NoOwnerCheck(p) ==
    /\ pc[p] = "unlock.read"
    /\ IF lockFile = NoFile \/ ParseFails(lockFile.data)
       THEN /\ Log(p, <<"unlock_err">>)
            /\ Panic(p)
       ELSE /\ pc' = Repl(pc, p, "unlock.remove")
            /\ UNCHANGED <<trace, rv, unwindTo, after, result>>
    /\ UNCHANGED <<lockVars, envVars, op, calls, guards, named,
                   startedFree>>

\* pid_from_file(&lock_file)? and the comparison with process::id(); an Err
\* makes the guard panic.
UnlockRead(p) ==
    /\ pc[p] = "unlock.read"
    /\ IF lockFile = NoFile \/ ParseFails(lockFile.data)
       THEN /\ Log(p, <<"unlock_err">>)
            /\ Panic(p)
       ELSE IF ParseDigits(lockFile.data) # Pid(p)
       THEN /\ Log(p, <<"unlock_mismatch">>)
            /\ Panic(p)
       ELSE /\ pc' = Repl(pc, p, "unlock.remove")
            /\ UNCHANGED <<trace, rv, unwindTo, after, result>>
    /\ UNCHANGED <<lockVars, envVars, op, calls, guards, named,
                   startedFree>>

\* fs::remove_file(lock_file)?; an Err makes the guard panic.
UnlockRemove(p) ==
    /\ pc[p] = "unlock.remove"
    /\ IF lockFile = NoFile
       THEN /\ Log(p, <<"unlock_err">>)
            /\ Panic(p)
            /\ UNCHANGED lockFile
       ELSE /\ lockFile' = NoFile
            /\ Log(p, <<"unlock">>)
            /\ pc' = Repl(pc, p, "unwind")
            /\ UNCHANGED <<rv, unwindTo, after, result>>
    /\ UNCHANGED <<inoCtr, fd, alive, envVars, op, calls, guards, named,
                   startedFree>>

(* ------------------------------------------------------------------ *)
(* Scope exit                                                          *)
(* ------------------------------------------------------------------ *)

\* The innermost guard of the scope being left runs: unlock (lock!) or
\* fs::remove_dir_all(tmp_dir()) (exec_with_tmp_data!).
DropGuard(p) ==
    /\ pc[p] = "unwind"
    /\ Len(guards[p]) > unwindTo[p]
    /\ guards' = Repl(guards, p, Front(guards[p]))
    /\ IF Last(guards[p]) = "unlock"
       THEN /\ pc' = Repl(pc, p, "unlock.exists")
            /\ UNCHANGED <<tmpDir, trace, rv, unwindTo, after, result>>
       ELSE IF p \in tmpDir
       THEN /\ tmpDir' = tmpDir \ {p}
            /\ Log(p, <<"rmtmp">>)
            /\ UNCHANGED <<pc, rv, unwindTo, after, result>>
       ELSE /\ Log(p, <<"rmtmp_err">>)
            /\ Panic(p)
            /\ UNCHANGED tmpDir
    /\ UNCHANGED <<lockVars, remote, chroot, repoVars, pkgVars, op, calls, named,
                   startedFree>>

\* All guards of the scope have run: the block is left, the function returns
\* to its caller, or the process ends.
LeaveScope(p) ==
    /\ pc[p] = "unwind"
    /\ Len(guards[p]) = unwindTo[p]
    /\ IF after[p] # "return"
       THEN /\ pc' = Repl(pc, p, after[p])
            /\ UNCHANGED <<calls, result>>
       ELSE IF rv[p] = "panic" \/ Len(calls[p]) = 1
       THEN /\ pc' = Repl(pc, p, "done")
            /\ result' = Repl(result, p, rv[p])
            /\ calls' = Repl(calls, p, <<>>)
       ELSE /\ pc' = Repl(pc, p, TopFrame(p).retpc)
            /\ calls' = Repl(calls, p, Front(calls[p]))
            /\ UNCHANGED result
    /\ UNCHANGED <<lockVars, envVars, op, guards, rv, unwindTo, after, trace, named,
                   startedFree>>

(* ------------------------------------------------------------------ *)
(* exec_on_repo!: download, the code block, upload                     *)
(* ------------------------------------------------------------------ *)

\* What an action leaves alone besides the control state it sets itself.
Rest == <<lockVars, remote, repoVars, pkgVars, op, named, startedFree>>

\* Mutant of Download: exec_on_repo! does not propagate the error of download.
Download_IgnoreError(p) ==
    /\ pc[p] = "download"
    /\ \E ok \in BOOLEAN :
          /\ ~remote => ok
          /\ Log(p, <<IF ok THEN "download" ELSE "download_err">>)
          /\ pc' = Repl(pc, p, Work(op[p].name))
          /\ UNCHANGED <<rv, unwindTo, after>>
    /\ UNCHANGED <<Rest, chroot, tmpDir, calls, guards, result>>

\* self.download()?: a no-op that succeeds for a local repository.
Download(p) ==
    /\ pc[p] = "download"
    /\ \E ok \in BOOLEAN :
          /\ ~remote => ok
          /\ IF ok
             THEN /\ Log(p, <<"download">>)
                  /\ pc' = Repl(pc, p, Work(op[p].name))
                  /\ UNCHANGED <<rv, unwindTo, after>>
             ELSE /\ Log(p, <<"download_err">>)
                  /\ Ret(p, "err")
    /\ UNCHANGED <<Rest, chroot, tmpDir, calls, guards, result>>

\* self.upload()?, then Ok(()): a no-op that succeeds for a local repository.
Upload(p) ==
    /\ pc[p] = "upload"
    /\ \E ok \in BOOLEAN :
          /\ ~remote => ok
          /\ Log(p, <<IF ok THEN "upload" ELSE "upload_err">>)
          /\ Ret(p, IF ok THEN "ok" ELSE "err")
    /\ UNCHANGED <<Rest, chroot, tmpDir, calls, guards, result>>

\* The end of the block that exec_with_tmp_data! was expanded in: its guard is
\* dropped and the statement after the block follows.
LeaveBlock(p, next) ==
    /\ pc' = Repl(pc, p, "unwind")
    /\ unwindTo' = Repl(unwindTo, p, Len(guards[p]) - 1)
    /\ after' = Repl(after, p, next)
    /\ UNCHANGED rv

\* self.remove_chroot_dir() called by add and update.
CallRemoveChrootDir(p, retpc) ==
    /\ calls' = Repl(calls, p, Append(calls[p],
                  [fn |-> "remove_chroot_dir", base |-> Len(guards[p]), retpc |-> retpc]))
    /\ pc' = Repl(pc, p, "remove_chroot_dir")
    /\ UNCHANGED <<rv, unwindTo, after>>

\* Mutant of EnsureTmp: the removal of the directory is not registered.
EnsureTmp_NoGuard(p) ==
    /\ tmpDir' = tmpDir \cup {p}
    /\ guards' = guards

\* ensure_tmp_dir()? and defer! { fs::remove_dir_all(tmp_dir()) }
EnsureTmp(p) ==
    /\ tmpDir' = tmpDir \cup {p}
    /\ guards' = Repl(guards, p, Append(guards[p], "rmtmp"))

\* clean_up: self.db_pkgs()?, which reads the DB once per process.
CleanUp(p) ==
    /\ pc[p] = "clean_up"
    /\ \E ok \in BOOLEAN :
          IF ok
          THEN /\ dbPkgs' = Repl(dbPkgs, p, db)
               /\ Log(p, <<"db_exists", "db_read">>)
               /\ pc' = Repl(pc, p, "clean_up.check1")
               /\ UNCHANGED <<rv, unwindTo, after>>
          ELSE /\ Log(p, <<"db_read_err">>)
               /\ Ret(p, "err")
               /\ UNCHANGED dbPkgs
    /\ UNCHANGED <<lockVars, pkgVars, remote, chroot, tmpDir, db, files, op, calls,
                   guards, result, named, startedFree>>

\* Names of the entries of `pkgs` without package file in `dir`.
ToBeDeletedPkgNames(pkgs, dir) ==
    {e.name : e \in {x \in pkgs : FromMetaDataFails(x, dir, PkgExt)}}

\* Check #1 of clean_up: the entries without package file are removed from the
\* DB by one call of remove_pkgs_from_db()? (repo-remove). pkg_ext()? is called
\* for each entry and determines the extension at its first call.
CleanUpCheck1(p) ==
    /\ pc[p] = "clean_up.check1"
    /\ \E out \in {"ext_err", "db_err", "ok"} :
          CASE out = "ext_err" ->
                 /\ dbPkgs[p] # {}
                 /\ Log(p, <<"pkg_ext_err">>)
                 /\ Ret(p, "err")
                 /\ UNCHANGED db
            [] out = "db_err" ->
                 /\ ToBeDeletedPkgNames(dbPkgs[p], files) # {}
                 /\ Log(p, <<"db_write_err">>)
                 /\ Ret(p, "err")
                 /\ UNCHANGED db
            [] out = "ok" ->
                 /\ db' = {e \in db :
                             e.name \notin ToBeDeletedPkgNames(dbPkgs[p], files)}
                 /\ Log(p, IF ToBeDeletedPkgNames(dbPkgs[p], files) = {}
                           THEN <<>> ELSE <<"db_write">>)
                 /\ pc' = Repl(pc, p, "clean_up.check2")
                 /\ UNCHANGED <<rv, unwindTo, after>>
    /\ UNCHANGED <<lockVars, pkgVars, remote, chroot, tmpDir, files, dbPkgs, op, calls,
                   guards, result, named, startedFree>>

\* The files fs::remove_file fails for: none or one of `cands`.
Failing(cands) == {{}} \cup {{f} : f \in cands}

\* Variant of the test of check #2 that looks the name up in the DB as check #1
\* left it.
ObsoletePkgFiles_CurrentDb(pkgs, dir) ==
    {f \in GlobPkgFiles(dir, PkgExt) :
        ~TryFromFails(f, dir) /\ PkgName(f) \notin DbNames(db)}

\* Package files in `dir` whose name is not a key of `pkgs`.
ObsoletePkgFiles(pkgs, dir) ==
    {f \in GlobPkgFiles(dir, PkgExt) :
        ~TryFromFails(f, dir) /\ PkgName(f) \notin DbNames(pkgs)}

\* Variant of check #2 that returns the error of the first fs::remove_file
\* that fails.
CleanUpCheck2_StopAtFailure(p) ==
    /\ pc[p] = "clean_up.check2"
    /\ \E fail \in Failing(ObsoletePkgFiles(dbPkgs[p], files)) :
          IF fail = {}
          THEN /\ files' = files \ ObsoletePkgFiles(dbPkgs[p], files)
               /\ Log(p, IF files' # files THEN <<"mirror_write">> ELSE <<>>)
               /\ pc' = Repl(pc, p, "clean_up.check3")
               /\ UNCHANGED <<rv, unwindTo, after>>
          ELSE /\ Log(p, <<"rm_file_err">>)
               /\ Ret(p, "err")
               /\ UNCHANGED files
    /\ UNCHANGED <<lockVars, pkgVars, remote, chroot, tmpDir, db, dbPkgs, op, calls,
                   guards, result, named, startedFree>>

\* Check #2 of clean_up: the package files without entry in db_pkgs are
\* removed; a failure of fs::remove_file is reported and the loop goes on.
\* pkg_ext()? can fail here when check #1 had no entry to call it for.
CleanUpCheck2(p) ==
    /\ pc[p] = "clean_up.check2"
    /\ \/ /\ dbPkgs[p] = {}
          /\ Log(p, <<"pkg_ext_err">>)
          /\ Ret(p, "err")
          /\ UNCHANGED files
       \/ /\ \E fail \in Failing(ObsoletePkgFiles(dbPkgs[p], files)) :
                /\ files' = files \ (ObsoletePkgFiles(dbPkgs[p], files) \ fail)
                /\ Log(p, (IF files' # files THEN <<"mirror_write">> ELSE <<>>)
                          \o (IF fail # {} THEN <<"rm_file_err">> ELSE <<>>))
          /\ pc' = Repl(pc, p, "clean_up.check3")
          /\ UNCHANGED <<rv, unwindTo, after>>
    /\ UNCHANGED <<lockVars, pkgVars, remote, chroot, tmpDir, db, dbPkgs, op, calls,
                   guards, result, named, startedFree>>

\* Signature files in `dir` without the file they belong to.
ObsoleteSigFiles(dir) ==
    {f \in GlobSigFiles(dir) : WithExtension(f) \notin dir}

\* Check #3 of clean_up: the signature files without file are removed; a
\* failure of fs::remove_file is reported and the loop goes on.
CleanUpCheck3(p) ==
    /\ pc[p] = "clean_up.check3"
    /\ \E fail \in Failing(ObsoleteSigFiles(files)) :
          /\ files' = files \ (ObsoleteSigFiles(files) \ fail)
          /\ Log(p, (IF files' # files THEN <<"mirror_write">> ELSE <<>>)
                    \o (IF fail # {} THEN <<"rm_file_err">> ELSE <<>>))
    /\ pc' = Repl(pc, p, "upload")
    /\ UNCHANGED <<lockVars, pkgVars, remote, chroot, tmpDir, db, dbPkgs, op, calls,
                   guards, rv, unwindTo, after, result, named, startedFree>>

\* The code block of remove: deps()?, valid_pkg_names()?, remove_pkgs()? with
\* its panic when pkg() fails.
Remove(p) ==
    /\ pc[p] = "remove"
    /\ \E out \in {"no_db", "db_err", "panic", "rm_err", "ok"} :
          CASE out = "no_db" ->
                 /\ Log(p, <<"db_exists">>)
                 /\ pc' = Repl(pc, p, "upload")
                 /\ UNCHANGED <<rv, unwindTo, after, result>>
            [] out = "db_err" ->
                 Log(p, <<"db_exists", "db_read">>) /\ Ret(p, "err") /\ UNCHANGED result
            [] out = "panic" ->
                 Log(p, <<"db_exists", "db_read">>) /\ Panic(p)
            [] out = "rm_err" ->
                 /\ Log(p, <<"db_exists", "db_read", "mirror_write", "db_write_err">>)
                 /\ Ret(p, "err")
                 /\ UNCHANGED result
            [] out = "ok" ->
                 /\ Log(p, <<"db_exists", "db_read", "mirror_write", "db_write">>)
                 /\ pc' = Repl(pc, p, "upload")
                 /\ UNCHANGED <<rv, unwindTo, after, result>>
    /\ UNCHANGED <<Rest, chroot, tmpDir, calls, guards>>

\* The code block of sign: gpg_key()?, valid_pkg_names()?, pkg()?, Pkg::sign.
Sign(p) ==
    /\ pc[p] = "sign"
    /\ \E out \in {"no_db", "no_key", "db_err", "ok"} :
          CASE out = "no_db" ->
                 /\ Log(p, <<"db_exists">>)
                 /\ pc' = Repl(pc, p, "upload")
                 /\ UNCHANGED <<rv, unwindTo, after>>
            [] out = "no_key" -> Log(p, <<"db_exists">>) /\ Ret(p, "err")
            [] out = "db_err" -> Log(p, <<"db_exists", "db_read">>) /\ Ret(p, "err")
            [] out = "ok" ->
                 /\ Log(p, <<"db_exists", "db_read", "mirror_write">>)
                 /\ pc' = Repl(pc, p, "upload")
                 /\ UNCHANGED <<rv, unwindTo, after>>
    /\ UNCHANGED <<Rest, chroot, tmpDir, calls, guards, result>>

\* The code block of list.
List(p) ==
    /\ pc[p] = "list"
    /\ \E ok \in BOOLEAN :
          /\ Log(p, <<"db_exists", "db_read">>)
          /\ IF ok
             THEN pc' = Repl(pc, p, "upload") /\ UNCHANGED <<rv, unwindTo, after>>
             ELSE Ret(p, "err")
    /\ UNCHANGED <<Rest, chroot, tmpDir, calls, guards, result>>

\* update up to exec_with_tmp_data!: valid_pkg_names()?, AurData::new()?,
\* pkgs_to_be_updated()?, `return Ok(())` when nothing is to be updated.
Update(p) ==
    /\ pc[p] = "update"
    /\ \E out \in {"no_db", "err", "none", "go"} :
          CASE out = "no_db" ->
                 /\ Log(p, <<"db_exists">>)
                 /\ pc' = Repl(pc, p, "upload")
                 /\ UNCHANGED <<rv, unwindTo, after, tmpDir, guards>>
            [] out = "err" ->
                 Log(p, <<"db_exists", "db_read">>) /\ Ret(p, "err") /\ UNCHANGED <<tmpDir, guards>>
            [] out = "none" ->
                 Log(p, <<"db_exists", "db_read">>) /\ Ret(p, "ok") /\ UNCHANGED <<tmpDir, guards>>
            [] out = "go" ->
                 /\ Log(p, <<"db_exists", "db_read", "mktmp">>)
                 /\ EnsureTmp(p)
                 /\ pc' = Repl(pc, p, "update.build")
                 /\ UNCHANGED <<rv, unwindTo, after>>
    /\ UNCHANGED <<Rest, chroot, calls, result>>

ToUpload(p) ==
    /\ pc' = Repl(pc, p, "upload")
    /\ UNCHANGED <<rv, unwindTo, after>>

BlockThenUpload(p) == LeaveBlock(p, "upload")

\* ensure_db()? or db_exists(), prepare_chroot()?, the builds, add_pkgs_to_db()?, remove_chroot_dir()? when
\* clean_chroot is set; `cleaned` is the position after that call, `inBlock`
\* says that the code is the block of exec_with_tmp_data!, which is left when
\* clean_chroot is not set.
BuildAndAdd(p, cleaned, inBlock) ==
    /\ chroot' = IF op[p].mode = "nochroot" THEN chroot ELSE TRUE
    /\ \E out \in {"prep_err", "db_err", "ok"} :
          CASE out = "prep_err" ->
                 Log(p, <<"db_exists">>) /\ Ret(p, "err") /\ UNCHANGED calls
            [] out = "db_err" ->
                 /\ Log(p, <<"db_exists", "mirror_write", "db_write_err">>)
                 /\ Ret(p, "err")
                 /\ UNCHANGED calls
            [] out = "ok" ->
                 /\ Log(p, <<"db_exists", "mirror_write", "db_write">>)
                 /\ IF op[p].mode = "clean"
                    THEN CallRemoveChrootDir(p, cleaned)
                    ELSE /\ IF inBlock THEN BlockThenUpload(p) ELSE ToUpload(p)
                         /\ UNCHANGED calls
    /\ UNCHANGED <<Rest, tmpDir, guards, result>>

\* The block of update inside exec_with_tmp_data!.
UpdateBuild(p) ==
    /\ pc[p] = "update.build"
    /\ BuildAndAdd(p, "update.cleaned", TRUE)

\* update after remove_chroot_dir() returned: `?`, the end of the block.
UpdateCleaned(p) ==
    /\ pc[p] = "update.cleaned"
    /\ IF rv[p] = "err" THEN Ret(p, "err") ELSE BlockThenUpload(p)
    /\ UNCHANGED <<Rest, chroot, tmpDir, calls, guards, trace, result>>

\* add up to lock!: the GPG key check, AurData::new()?, exec_with_tmp_data!,
\* the collection of the PKGBUILD files, `if !pkgbuilds.is_empty()`.
Add(p) ==
    /\ pc[p] = "add"
    /\ \E out \in {"no_key", "aur_err", "prep_err", "empty", "go"} :
          IF out \in {"no_key", "aur_err"}
          THEN Ret(p, "err") /\ UNCHANGED <<trace, tmpDir, guards>>
          ELSE /\ Log(p, <<"mktmp">>)
               /\ EnsureTmp(p)
               /\ CASE out = "prep_err" -> Ret(p, "err")
                    [] out = "empty" -> Ret(p, "ok")
                    [] out = "go" ->
                         /\ pc' = Repl(pc, p, "lock.exists")
                         /\ UNCHANGED <<rv, unwindTo, after>>
    /\ UNCHANGED <<Rest, chroot, calls, result>>

\* The code block of add inside exec_on_repo!.
AddBuild(p) ==
    /\ pc[p] = "add.build"
    /\ BuildAndAdd(p, "add.cleaned", FALSE)

\* add after remove_chroot_dir() returned: `?`, the end of the code block.
AddCleaned(p) ==
    /\ pc[p] = "add.cleaned"
    /\ IF rv[p] = "err" THEN Ret(p, "err") ELSE ToUpload(p)
    /\ UNCHANGED <<Rest, chroot, tmpDir, calls, guards, trace, result>>

\* make_chroot after lock!: exec_with_tmp_data! { create_chroot()? }.
MakeChroot(p) ==
    /\ pc[p] = "make_chroot"
    /\ Log(p, <<"mktmp">>)
    /\ EnsureTmp(p)
    /\ chroot' = TRUE
    /\ \E ok \in BOOLEAN : Ret(p, IF ok THEN "ok" ELSE "err")
    /\ UNCHANGED <<Rest, calls, result>>

\* remove_cache_dir up to lock!: nothing to do for a local repository or
\* without a cache directory.
RemoveCacheDir(p) ==
    /\ pc[p] = "remove_cache_dir"
    /\ \E exists \in BOOLEAN :
          IF remote /\ exists
          THEN pc' = Repl(pc, p, "lock.exists") /\ UNCHANGED <<rv, unwindTo, after>>
          ELSE Ret(p, "ok")
    /\ UNCHANGED <<Rest, chroot, tmpDir, calls, guards, trace, result>>

\* fs::remove_dir_all(&self.local_dir)?
RemoveCacheDirRm(p) ==
    /\ pc[p] = "rcache.rm"
    /\ \E ok \in BOOLEAN :
          IF ok
          THEN Log(p, <<"mirror_write">>) /\ Ret(p, "ok")
          ELSE UNCHANGED trace /\ Ret(p, "err")
    /\ UNCHANGED <<Rest, chroot, tmpDir, calls, guards, result>>

\* remove_chroot_dir up to lock!: nothing to do without a chroot directory.
RemoveChrootDir(p) ==
    /\ pc[p] = "remove_chroot_dir"
    /\ IF chroot
       THEN pc' = Repl(pc, p, "lock.exists") /\ UNCHANGED <<rv, unwindTo, after>>
       ELSE Ret(p, "ok")
    /\ UNCHANGED <<Rest, chroot, tmpDir, calls, guards, trace, result>>

\* The removal of the chroot directory, by fs::remove_dir_all or `rm -rdf`.
RemoveChrootDirRm(p) ==
    /\ pc[p] = "rcd.rm"
    /\ \E ok \in BOOLEAN :
          /\ chroot' = ~ok
          /\ Ret(p, IF ok THEN "ok" ELSE "err")
    /\ UNCHANGED <<Rest, tmpDir, calls, guards, trace, result>>

\* Repo::unlock run by another live process that holds the lock.
HolderReleases ==
    /\ lockFile # NoFile
    /\ ~ParseFails(lockFile.data)
    /\ \E q \in alive :
          /\ ParseDigits(lockFile.data) = Pid(q)
          /\ alive' = alive \ {q}
    /\ lockFile' = NoFile
    /\ UNCHANGED <<inoCtr, fd, envVars, ctlVars>>

(* ------------------------------------------------------------------ *)
(* Pkg::build                                                          *)
(* ------------------------------------------------------------------ *)

BuildRest ==
    <<lockVars, remote, chroot, tmpDir, db, dbPkgs, ctlVars, unitVars, cmdVars, aurVars,
      srvVars, auxVars>>

\* The check of the GPG key, pkgbuild.pkg_files()? and the build with makepkg
\* or makechrootpkg, which puts the package files into pkg_dir; a package of
\* the list can be missing and the version can differ from the listed one.
BuildStart ==
    /\ buildPc = "build"
    /\ IF sign = <<TRUE>> /\ ~gpgKey
       THEN buildPc' = "err" /\ UNCHANGED <<pkgDir, repoLog>>
       ELSE IF pkgFiles = <<>>
       THEN buildPc' = "err" /\ UNCHANGED <<pkgDir, repoLog>>
       ELSE /\ repoLog' = Append(repoLog, Event("makepkg"))
            /\ \E ok \in BOOLEAN :
                  IF ok
                  THEN /\ \E v \in Versions, built \in SUBSET Range(pkgFiles) :
                             pkgDir' = pkgDir \cup {BuildFile(PkgName(f), v) : f \in built}
                       /\ buildPc' = "loop"
                  ELSE buildPc' = "err" /\ UNCHANGED pkgDir
    /\ UNCHANGED <<BuildRest, files, sign, gpgKey, pkgFiles, pkg, toBeSigned, builtPkgs,
                   skipped>>

\* The files of dir that glob yields for "{pattern}".
Matching(pat, dir) == {f \in dir : GlobMatches(pat, f)}

\* file_exists_for_pattern(pattern_ignore_version(pkg_file, repo_dir) + SIG_SUFFIX)
SignedFileExists(pkgFile, dir) ==
    Matching(PatternSig(PatternIgnoreVersion(pkgFile)), dir) # {}

\* The head of the loop over pkg_files: Pkg::from_file_ignore_version(pkg_file)
\* takes the first file of pkg_dir that matches the pattern; without one the
\* package is reported and skipped. Then to_be_signed is determined.
BuildLoop ==
    /\ buildPc = "loop"
    /\ IF pkgFiles = <<>>
       THEN /\ buildPc' = "ok"
            /\ UNCHANGED <<pkgFiles, pkg, toBeSigned, skipped>>
       ELSE IF Matching(PatternIgnoreVersion(Head(pkgFiles)), pkgDir) = {}
       THEN /\ pkgFiles' = Tail(pkgFiles)
            /\ skipped' = Append(skipped, Head(pkgFiles))
            /\ UNCHANGED <<buildPc, pkg, toBeSigned>>
       ELSE /\ pkg' = FirstOf(Matching(PatternIgnoreVersion(Head(pkgFiles)), pkgDir))
            /\ toBeSigned' = IF sign # <<>> THEN sign[1]
                             ELSE SignedFileExists(Head(pkgFiles), files)
            /\ buildPc' = "remove"
            /\ UNCHANGED <<pkgFiles, skipped>>
    /\ UNCHANGED <<BuildRest, repoLog, files, sign, gpgKey, pkgDir, builtPkgs>>

\* The files remove_from_dir removes from dir for the package file f.
ToBeRemoved(f, dir) ==
    {g \in dir : GlobMatchesPrefix(PatternIgnoreVersion(f), g)
                 /\ RePkgOrSigFile(PkgName(f), g)}

\* pkg.remove_from_dir(repo_dir)?: the files are removed in the order of glob
\* up to the first failure of fs::remove_file.
BuildRemove ==
    /\ buildPc = "remove"
    /\ \E fail \in Failing(ToBeRemoved(pkg, files)) :
          IF fail = {}
          THEN /\ files' = files \ ToBeRemoved(pkg, files)
               /\ buildPc' = "move"
          ELSE /\ files' = files \ {g \in ToBeRemoved(pkg, files) :
                                      \E f \in fail : Less(FileText(g), FileText(f))}
               /\ buildPc' = "err"
    /\ UNCHANGED <<BuildRest, repoLog, sign, gpgKey, pkgFiles, pkgDir, pkg, toBeSigned,
                   builtPkgs, skipped>>

\* pkg.move_to_dir(repo_dir)?: fs::rename replaces a file of the same name.
BuildMove ==
    /\ buildPc = "move"
    /\ \E ok \in BOOLEAN :
          IF ok
          THEN /\ files' = files \cup {pkg}
               /\ pkgDir' = pkgDir \ {pkg}
               /\ buildPc' = "sign"
          ELSE /\ buildPc' = "err"
               /\ UNCHANGED <<files, pkgDir>>
    /\ UNCHANGED <<BuildRest, repoLog, sign, gpgKey, pkgFiles, pkg, toBeSigned, builtPkgs,
                   skipped>>

\* if to_be_signed: the check of the GPG key and pkg.sign()?, which does
\* nothing for a package whose signature file exists; then pkgs.push(pkg).
BuildSign ==
    /\ buildPc = "sign"
    /\ \E ok \in BOOLEAN :
          IF toBeSigned /\ (~gpgKey \/ (~ok /\ SigFile(pkg) \notin files))
          THEN /\ buildPc' = "err"
               /\ UNCHANGED <<files, pkgFiles, builtPkgs>>
          ELSE /\ files' = IF toBeSigned THEN files \cup {SigFile(pkg)} ELSE files
               /\ builtPkgs' = Append(builtPkgs, pkg)
               /\ pkgFiles' = Tail(pkgFiles)
               /\ buildPc' = "loop"
    /\ UNCHANGED <<BuildRest, repoLog, sign, gpgKey, pkgDir, pkg, toBeSigned, skipped>>

(* ------------------------------------------------------------------ *)
(* The builds of add and update and add_pkgs_to_db                     *)
(* ------------------------------------------------------------------ *)

UnitRest ==
    <<lockVars, remote, chroot, tmpDir, dbPkgs, ctlVars, cmdVars, aurVars, srvVars, auxVars>>

\* update calls Pkg::build with sign = None, add with Some(sign).
IsUpdate == sign = <<>>

\* The DB entry repo-add makes for a package file.
EntryOf(f) ==
    [name |-> PkgName(f),
     version |-> SubSeq(f.segs, Len(f.segs) - 2, Len(f.segs) - 1),
     arch |-> Last(f.segs)]

\* repo-add: the entries of the packages replace the entries of their names.
RepoAdd(d, pkgFs) ==
    {e \in d : e.name \notin {PkgName(f) : f \in Range(pkgFs)}}
    \cup {EntryOf(f) : f \in Range(pkgFs)}

\* Variant of the start of Repo::add without the check of the GPG key.
AddStart_NoKeyCheck ==
    /\ addPc = "add"
    /\ addPc' = "prepare"
    /\ UNCHANGED <<UnitRest, db, files, buildVars, pkgbuilds, built_pkgs, repoLog>>

\* add: `if sign && self.gpg_key().is_none()`.
AddStart ==
    /\ addPc = "add"
    /\ addPc' = IF sign = <<TRUE>> /\ ~gpgKey THEN "err" ELSE "prepare"
    /\ UNCHANGED <<UnitRest, db, files, buildVars, pkgbuilds, built_pkgs, repoLog>>

\* What precedes the loop over the PKGBUILD files. add: ensure_db()?, which
\* creates an empty DB with `repo-add -n -R` when none exists, and
\* prepare_chroot()?. update: `if self.db_exists()`, prepare_chroot()?,
\* ensure_pkg_tmp_dirs()?, PkgBuild::from_aur()?.
Prepare ==
    /\ addPc = "prepare"
    /\ \E exists \in BOOLEAN, created \in BOOLEAN, prepared \in BOOLEAN :
          /\ db # {} => exists
          /\ IF IsUpdate /\ ~exists
             THEN addPc' = "ok" /\ UNCHANGED repoLog
             ELSE /\ repoLog' = IF exists THEN repoLog
                                ELSE Append(repoLog, Event("db_create"))
                  /\ addPc' = IF (exists \/ created) /\ prepared THEN "units" ELSE "err"
    /\ UNCHANGED <<UnitRest, db, files, buildVars, pkgbuilds, built_pkgs>>

\* The head of the loop over the PKGBUILD files: Pkg::build is called for the
\* next one; after the last one add_pkgs_to_db follows.
UnitNext ==
    /\ addPc = "units"
    /\ IF pkgbuilds = <<>>
       THEN /\ addPc' = "add_pkgs_to_db"
            /\ UNCHANGED <<buildVars, repoLog>>
       ELSE /\ pkgFiles' = [i \in 1..Len(Head(pkgbuilds)) |->
                              BuildFile(Head(pkgbuilds)[i], ListedVersion)]
            /\ pkg' = NoPkg
            /\ toBeSigned' = FALSE
            /\ builtPkgs' = <<>>
            /\ skipped' = <<>>
            /\ buildPc' = "build"
            /\ addPc' = "unit"
            /\ repoLog' = Append(repoLog, Event("build"))
            /\ UNCHANGED <<sign, gpgKey, pkgDir>>
    /\ UNCHANGED <<UnitRest, db, files, pkgbuilds, built_pkgs>>

\* Variant of the match on the result of Pkg::build that also takes the
\* packages a failed call had collected.
UnitDone_KeepFailed ==
    /\ addPc = "unit"
    /\ buildPc \in {"ok", "err"}
    /\ built_pkgs' = built_pkgs \o builtPkgs
    /\ repoLog' = IF buildPc = "ok" THEN repoLog
                  ELSE Append(repoLog, Event("build_err"))
    /\ pkgbuilds' = Tail(pkgbuilds)
    /\ buildPc' = "idle"
    /\ addPc' = "units"
    /\ UNCHANGED <<UnitRest, db, files, sign, gpgKey, pkgFiles, pkgDir, pkg, toBeSigned,
                   builtPkgs, skipped>>

\* The match on the result of Pkg::build: an error is reported and the loop
\* goes on, the packages of Ok(pkgs) are appended to built_pkgs.
UnitDone ==
    /\ addPc = "unit"
    /\ buildPc \in {"ok", "err"}
    /\ IF buildPc = "ok"
       THEN /\ built_pkgs' = built_pkgs \o builtPkgs
            /\ UNCHANGED repoLog
       ELSE /\ repoLog' = Append(repoLog, Event("build_err"))
            /\ UNCHANGED built_pkgs
    /\ pkgbuilds' = Tail(pkgbuilds)
    /\ buildPc' = "idle"
    /\ addPc' = "units"
    /\ UNCHANGED <<UnitRest, db, files, sign, gpgKey, pkgFiles, pkgDir, pkg, toBeSigned,
                   builtPkgs, skipped>>

\* remove_db_sig_files(): the files <local_dir>/<name>.db*.sig and
\* <name>.files*.sig are removed, where name is the name of the repository.
\* The result tells whether <db_name>.db.sig, the file is_db_signed looks
\* for, exists afterwards.
RemoveDbSigFiles(signed) == IF db_name = RepoName THEN FALSE ELSE signed

\* add_pkgs_to_db(&built_pkgs)?: nothing for no package;
\* remove_db_sig_files()? for a signed DB that shall not be signed; an error
\* when the DB shall be signed and there is no GPG key; one run of repo-add
\* with the files of all packages, which writes the signature files with
\* --sign and leaves existing ones alone without.
AddPkgsToDb ==
    /\ addPc = "add_pkgs_to_db"
    /\ IF built_pkgs = <<>>
       THEN /\ addPc' = "ok"
            /\ UNCHANGED <<db, dbSigned, repoLog>>
       ELSE \E sigsRemoved \in BOOLEAN, ok \in BOOLEAN :
               IF ~sign_db /\ dbSigned /\ ~sigsRemoved
               THEN addPc' = "err" /\ UNCHANGED <<db, dbSigned, repoLog>>
               ELSE IF sign_db /\ ~gpgKey
               THEN addPc' = "err" /\ UNCHANGED <<db, dbSigned, repoLog>>
               ELSE /\ repoLog' = Append(repoLog, [ev |-> "db_add", pkgs |-> built_pkgs])
                    /\ db' = IF ok THEN RepoAdd(db, built_pkgs) ELSE db
                    /\ dbSigned' = IF sign_db THEN (ok \/ dbSigned)
                                   ELSE (dbSigned /\ RemoveDbSigFiles(dbSigned))
                    /\ addPc' = IF ok THEN "ok" ELSE "err"
    /\ UNCHANGED <<lockVars, remote, chroot, tmpDir, dbPkgs, ctlVars, aurVars, srvVars, auxVars,
                   pkg_names, no_confirm, sign_db, deps, valid_pkg_names, to_be_removed, cmdPc,
                   files, buildVars, pkgbuilds, built_pkgs>>

(* ------------------------------------------------------------------ *)
(* Repo::sign                                                          *)
(* ------------------------------------------------------------------ *)

CmdRest ==
    <<lockVars, chroot, tmpDir, dbPkgs, ctlVars, buildVars, unitVars, aurVars, srvVars, auxVars>>

\* The sequences that hold every element of S once: the orders in which the
\* keys of a HashMap can be iterated.
Orders(S) ==
    {s \in [1..Cardinality(S) -> S] : \A i \in DOMAIN s : \A j \in DOMAIN s : s[i] = s[j] => i = j}

\* The elements of the sequence s that are in S, in the order of s.
RECURSIVE Filter(_, _)
Filter(s, S) ==
    IF s = <<>> THEN <<>>
    ELSE (IF Head(s) \in S THEN <<Head(s)>> ELSE <<>>) \o Filter(Tail(s), S)

\* valid_pkg_names(pkg_names): the requested names the DB contains, in the
\* order of the request, or all names of the DB for None.
ValidPkgNames(names, d) ==
    IF names = <<>> THEN Orders(DbNames(d)) ELSE {Filter(names[1], DbNames(d))}

\* self.pkg(pkg_name): the package file of the DB entry of that name.
PkgOf(n, d) ==
    LET e == CHOOSE e \in d : e.name = n IN MetaDataPath(e.name, e.version, e.arch, PkgExt)

\* download()?, `if self.db_exists()`, gpg_key()? and valid_pkg_names()?.
SignStart ==
    /\ cmdPc = "sign"
    /\ \E downloaded \in BOOLEAN, exists \in BOOLEAN, read \in BOOLEAN :
          /\ ~remote => downloaded
          /\ db # {} => exists
          /\ IF ~downloaded THEN cmdPc' = "err" /\ UNCHANGED valid_pkg_names
             ELSE IF ~exists THEN cmdPc' = "upload" /\ UNCHANGED valid_pkg_names
             ELSE IF ~gpgKey \/ ~read THEN cmdPc' = "err" /\ UNCHANGED valid_pkg_names
             ELSE /\ valid_pkg_names' \in ValidPkgNames(pkg_names, db)
                  /\ cmdPc' = "pkgs"
    /\ UNCHANGED <<CmdRest, remote, db, files, repoLog, pkg_names, no_confirm, sign_db,
                   dbSigned, deps, to_be_removed>>

\* The loop of sign: self.pkg(pkg_name)? fails when the package file of the
\* DB entry does not exist; Pkg::sign does nothing for a package whose
\* signature file exists and runs gpg otherwise; its error is reported.
SignPkg ==
    /\ cmdPc = "pkgs"
    /\ IF valid_pkg_names = <<>>
       THEN cmdPc' = "upload" /\ UNCHANGED <<files, repoLog, valid_pkg_names>>
       ELSE LET f == PkgOf(Head(valid_pkg_names), db) IN
            IF TryFromFails(f, files)
            THEN cmdPc' = "err" /\ UNCHANGED <<files, repoLog, valid_pkg_names>>
            ELSE /\ valid_pkg_names' = Tail(valid_pkg_names)
                 /\ cmdPc' = "pkgs"
                 /\ IF SigFile(f) \in files
                    THEN UNCHANGED <<files, repoLog>>
                    ELSE \E signed \in BOOLEAN :
                            IF signed
                            THEN /\ files' = files \cup {SigFile(f)}
                                 /\ repoLog' = Append(repoLog, [ev |-> "gpg", pkgs |-> <<f>>])
                            ELSE /\ repoLog' = Append(repoLog,
                                                      [ev |-> "sign_err", pkgs |-> <<f>>])
                                 /\ UNCHANGED files
    /\ UNCHANGED <<CmdRest, remote, db, pkg_names, no_confirm, sign_db, dbSigned, deps,
                   to_be_removed>>

(* ------------------------------------------------------------------ *)
(* Repo::remove                                                        *)
(* ------------------------------------------------------------------ *)

\* download()?, `if self.db_exists()`, deps()? and valid_pkg_names(Some(pkg_names))?.
RemoveStart ==
    /\ cmdPc = "remove"
    /\ \E downloaded \in BOOLEAN, exists \in BOOLEAN, read \in BOOLEAN :
          /\ ~remote => downloaded
          /\ db # {} => exists
          /\ IF ~downloaded THEN cmdPc' = "err" /\ UNCHANGED valid_pkg_names
             ELSE IF ~exists THEN cmdPc' = "upload" /\ UNCHANGED valid_pkg_names
             ELSE IF ~read THEN cmdPc' = "err" /\ UNCHANGED valid_pkg_names
             ELSE /\ valid_pkg_names' \in ValidPkgNames(pkg_names, db)
                  /\ cmdPc' = "filter"
    /\ UNCHANGED <<CmdRest, remote, db, files, repoLog, pkg_names, no_confirm, sign_db,
                   dbSigned, deps, to_be_removed>>

\* Variant of the filter of remove that drops a name other packages depend
\* on when no_confirm is set.
RemoveFilter_DepsBlock ==
    /\ cmdPc = "filter"
    /\ IF valid_pkg_names = <<>>
       THEN /\ valid_pkg_names' = to_be_removed
            /\ to_be_removed' = <<>>
            /\ cmdPc' = "remove_pkgs"
            /\ UNCHANGED repoLog
       ELSE LET n == Head(valid_pkg_names) IN
            /\ valid_pkg_names' = Tail(valid_pkg_names)
            /\ cmdPc' = "filter"
            /\ IF n \notin deps
               THEN to_be_removed' = Append(to_be_removed, n) /\ UNCHANGED repoLog
               ELSE IF no_confirm
               THEN UNCHANGED <<to_be_removed, repoLog>>
               ELSE \E yes \in BOOLEAN :
                       /\ repoLog' = Append(repoLog,
                                            [ev |-> IF yes THEN "confirmed" ELSE "declined",
                                             pkgs |-> <<n>>])
                       /\ to_be_removed' = IF yes THEN Append(to_be_removed, n)
                                           ELSE to_be_removed
    /\ UNCHANGED <<CmdRest, remote, db, files, pkg_names, no_confirm, sign_db, dbSigned, deps>>

\* The filter of remove: a name is kept if no_confirm is set, if it is no
\* key of deps, or if the user answers the question with yes. The names kept
\* are the pkg_names of remove_pkgs.
RemoveFilter ==
    /\ cmdPc = "filter"
    /\ IF valid_pkg_names = <<>>
       THEN /\ valid_pkg_names' = to_be_removed
            /\ to_be_removed' = <<>>
            /\ cmdPc' = "remove_pkgs"
            /\ UNCHANGED repoLog
       ELSE LET n == Head(valid_pkg_names) IN
            /\ valid_pkg_names' = Tail(valid_pkg_names)
            /\ cmdPc' = "filter"
            /\ IF no_confirm \/ n \notin deps
               THEN to_be_removed' = Append(to_be_removed, n) /\ UNCHANGED repoLog
               ELSE \E yes \in BOOLEAN :
                       /\ repoLog' = Append(repoLog,
                                            [ev |-> IF yes THEN "confirmed" ELSE "declined",
                                             pkgs |-> <<n>>])
                       /\ to_be_removed' = IF yes THEN Append(to_be_removed, n)
                                           ELSE to_be_removed
    /\ UNCHANGED <<CmdRest, remote, db, files, pkg_names, no_confirm, sign_db, dbSigned, deps>>

\* The filter of remove_pkgs: self.pkg(pkg_name) panics when the package file
\* of the DB entry does not exist or pkg_ext() fails; remove_from_dir removes
\* the files in the order of glob up to the first failure of fs::remove_file,
\* an error is reported and the name is dropped.
RemovePkgs ==
    /\ cmdPc = "remove_pkgs"
    /\ IF valid_pkg_names = <<>>
       THEN cmdPc' = "remove_pkgs_from_db"
            /\ UNCHANGED <<files, repoLog, valid_pkg_names, to_be_removed>>
       ELSE LET n == Head(valid_pkg_names)
                f == PkgOf(n, db)
            IN  \E ext \in BOOLEAN :
                   IF ~ext \/ TryFromFails(f, files)
                   THEN cmdPc' = "panic"
                        /\ UNCHANGED <<files, repoLog, valid_pkg_names, to_be_removed>>
                   ELSE /\ valid_pkg_names' = Tail(valid_pkg_names)
                        /\ cmdPc' = "remove_pkgs"
                        /\ \E fail \in Failing(ToBeRemoved(f, files)) :
                              IF fail = {}
                              THEN /\ files' = files \ ToBeRemoved(f, files)
                                   /\ to_be_removed' = Append(to_be_removed, n)
                                   /\ UNCHANGED repoLog
                              ELSE /\ files' = files \ {g \in ToBeRemoved(f, files) :
                                                          \E h \in fail :
                                                             Less(FileText(g), FileText(h))}
                                   /\ repoLog' = Append(repoLog, [ev |-> "rm_err",
                                                                  pkgs |-> <<n>>])
                                   /\ UNCHANGED to_be_removed
    /\ UNCHANGED <<CmdRest, remote, db, pkg_names, no_confirm, sign_db, dbSigned, deps>>

\* Variant of remove_pkgs_from_db that does not look for the GPG key before
\* repo-remove is run.
RemovePkgsFromDb_NoKeyCheck ==
    /\ cmdPc = "remove_pkgs_from_db"
    /\ IF to_be_removed = <<>>
       THEN cmdPc' = "upload" /\ UNCHANGED <<db, dbSigned, repoLog>>
       ELSE \E sigsRemoved \in BOOLEAN, ok \in BOOLEAN :
               IF ~sign_db /\ dbSigned /\ ~sigsRemoved
               THEN cmdPc' = "err" /\ UNCHANGED <<db, dbSigned, repoLog>>
               ELSE /\ repoLog' = Append(repoLog, [ev |-> "repo_remove",
                                                   pkgs |-> to_be_removed])
                    /\ db' = IF ok THEN {e \in db : e.name \notin Range(to_be_removed)} ELSE db
                    /\ dbSigned' = IF sign_db THEN (ok \/ dbSigned)
                                   ELSE (dbSigned /\ RemoveDbSigFiles(dbSigned))
                    /\ cmdPc' = IF ok THEN "upload" ELSE "err"
    /\ UNCHANGED <<CmdRest, remote, files, pkg_names, no_confirm, sign_db, deps,
                   valid_pkg_names, to_be_removed>>

\* remove_pkgs_from_db(&to_be_removed_pkg_names)?: nothing for no name;
\* remove_db_sig_files()? for a signed DB that shall not be signed; an error
\* when the DB shall be signed and there is no GPG key; one run of repo-remove
\* with all names.
RemovePkgsFromDb ==
    /\ cmdPc = "remove_pkgs_from_db"
    /\ IF to_be_removed = <<>>
       THEN cmdPc' = "upload" /\ UNCHANGED <<db, dbSigned, repoLog>>
       ELSE \E sigsRemoved \in BOOLEAN, ok \in BOOLEAN :
               IF ~sign_db /\ dbSigned /\ ~sigsRemoved
               THEN cmdPc' = "err" /\ UNCHANGED <<db, dbSigned, repoLog>>
               ELSE IF sign_db /\ ~gpgKey
               THEN cmdPc' = "err" /\ UNCHANGED <<db, dbSigned, repoLog>>
               ELSE /\ repoLog' = Append(repoLog, [ev |-> "repo_remove",
                                                   pkgs |-> to_be_removed])
                    /\ db' = IF ok THEN {e \in db : e.name \notin Range(to_be_removed)} ELSE db
                    /\ dbSigned' = IF sign_db THEN (ok \/ dbSigned)
                                   ELSE (dbSigned /\ RemoveDbSigFiles(dbSigned))
                    /\ cmdPc' = IF ok THEN "upload" ELSE "err"
    /\ UNCHANGED <<CmdRest, remote, files, pkg_names, no_confirm, sign_db, deps,
                   valid_pkg_names, to_be_removed>>

\* upload()? and Ok(()).
CmdUpload ==
    /\ cmdPc = "upload"
    /\ \E uploaded \in BOOLEAN :
          /\ ~remote => uploaded
          /\ cmdPc' = IF uploaded THEN "ok" ELSE "err"
    /\ UNCHANGED <<CmdRest, remote, db, files, repoLog, pkg_names, no_confirm, sign_db,
                   dbSigned, deps, valid_pkg_names, to_be_removed>>

(* ------------------------------------------------------------------ *)
(* Repo::update up to the builds                                       *)
(* ------------------------------------------------------------------ *)

UpdRest == <<lockVars, chroot, tmpDir, dbPkgs, ctlVars, buildVars, unitVars, srvVars, auxVars>>

UpdFlags == <<remote, pkg_names, no_confirm, sign_db, dbSigned, deps, to_be_removed, cmdPc,
              force_no_version>>

\* The i-th element of each record of the sequence s.
Bases(s) == [i \in DOMAIN s |-> s[i].pkg_base]

\* download()?, `if self.db_exists()` and valid_pkg_names(pkg_names)?.
UpdStart ==
    /\ updPc = "update"
    /\ \E downloaded \in BOOLEAN, exists \in BOOLEAN, read \in BOOLEAN :
          /\ ~remote => downloaded
          /\ db # {} => exists
          /\ IF ~downloaded THEN updPc' = "err" /\ UNCHANGED valid_pkg_names
             ELSE IF ~exists THEN updPc' = "upload" /\ UNCHANGED valid_pkg_names
             ELSE IF ~read THEN updPc' = "err" /\ UNCHANGED valid_pkg_names
             ELSE /\ valid_pkg_names' \in ValidPkgNames(pkg_names, db)
                  /\ updPc' = "aur"
    /\ UNCHANGED <<UpdRest, UpdFlags, db, files, repoLog, pkg_name2base, pkg_infos, pkg_upds,
                   pkg_bases, pkg_repo_dirs>>

\* AurData::new(&valid_pkg_names, ...)?: one request for all names; the
\* response has an item for each name AUR knows, and the version of a package
\* base is taken from its first item.
AurNew ==
    /\ updPc = "aur"
    /\ IF valid_pkg_names = <<>>
       THEN /\ updPc' = "pkgs_to_be_updated"
            /\ UNCHANGED <<pkg_name2base, pkg_infos>>
       ELSE \E ok \in BOOLEAN, known \in SUBSET Range(valid_pkg_names),
               version \in {v \in [UpdBases -> UpdVersions] :
                              v["c-git"] \in VcsVersions} :
               IF ~ok
               THEN updPc' = "err" /\ UNCHANGED <<pkg_name2base, pkg_infos>>
               ELSE /\ pkg_name2base' = {[name |-> n, pkg_base |-> BaseOf(n)] : n \in known}
                    /\ pkg_infos' = {[pkg_base |-> BaseOf(n), version |-> version[BaseOf(n)]] :
                                       n \in known}
                    /\ updPc' = "pkgs_to_be_updated"
    /\ UNCHANGED <<UpdRest, UpdFlags, db, files, repoLog, valid_pkg_names, pkg_upds, pkg_bases,
                   pkg_repo_dirs>>

\* pkgs_to_be_updated(&aur_data, force_no_version, no_confirm)?: the updates
\* in the order in which pkg_name2base is iterated, the question "Continue?"
\* and the package base of each update; update returns Ok(()) when there is
\* no package base.
PkgsToBeUpdated ==
    /\ updPc = "pkgs_to_be_updated"
    /\ \E read \in BOOLEAN, yes \in BOOLEAN,
          upds \in Orders(IF force_no_version THEN NoVersionSet(pkg_name2base)
                          ELSE PkgUpdSet(pkg_name2base, pkg_infos, db)) :
          IF ~force_no_version /\ ~read
          THEN updPc' = "err" /\ UNCHANGED <<pkg_upds, pkg_bases, repoLog>>
          ELSE /\ pkg_upds' = upds
               /\ repoLog' = IF upds # <<>> /\ ~no_confirm
                             THEN Append(repoLog, Event("continue?")) ELSE repoLog
               /\ pkg_bases' = IF no_confirm \/ yes THEN Bases(upds) ELSE <<>>
               /\ updPc' = IF pkg_bases' = <<>> THEN "ok" ELSE "prepare"
    /\ UNCHANGED <<UpdRest, UpdFlags, db, files, valid_pkg_names, pkg_name2base, pkg_infos,
                   pkg_repo_dirs>>

\* ensure_tmp_dir()?, prepare_chroot()? and ensure_pkg_tmp_dirs()?.
UpdPrepare ==
    /\ updPc = "prepare"
    /\ \E ok \in BOOLEAN : updPc' = IF ok THEN "clone" ELSE "err"
    /\ UNCHANGED <<UpdRest, UpdFlags, db, files, repoLog, valid_pkg_names, pkg_name2base,
                   pkg_infos, pkg_upds, pkg_bases, pkg_repo_dirs>>

\* Variant of the loop of clone_pkg_repos in which git clones into a
\* directory that exists.
ClonePkgRepo_IntoExisting ==
    /\ updPc = "clone"
    /\ IF pkg_bases = <<>>
       THEN updPc' = "from_aur" /\ UNCHANGED <<pkg_bases, pkg_repo_dirs, repoLog>>
       ELSE /\ pkg_bases' = Tail(pkg_bases)
            /\ updPc' = "clone"
            /\ IF Head(pkg_bases) \notin {i.pkg_base : i \in pkg_infos}
               THEN UNCHANGED <<pkg_repo_dirs, repoLog>>
               ELSE \E ok \in BOOLEAN :
                       IF ok
                       THEN /\ pkg_repo_dirs' = Append(pkg_repo_dirs, Head(pkg_bases))
                            /\ repoLog' = Append(repoLog, [ev |-> "git_clone",
                                                           pkgs |-> <<Head(pkg_bases)>>])
                       ELSE /\ repoLog' = Append(repoLog, [ev |-> "clone_err",
                                                           pkgs |-> <<Head(pkg_bases)>>])
                            /\ UNCHANGED pkg_repo_dirs
    /\ UNCHANGED <<UpdRest, UpdFlags, db, files, valid_pkg_names, pkg_name2base, pkg_infos,
                   pkg_upds>>

\* The loop of clone_pkg_repos(Some(&pkg_bases), pkgbuild_dir): the names that
\* are keys of pkg_infos are cloned with `git clone <uri> <dir>/<pkg_base>`,
\* which fails when the directory exists and is not empty; an error is
\* reported and the next name is cloned.
ClonePkgRepo ==
    /\ updPc = "clone"
    /\ IF pkg_bases = <<>>
       THEN updPc' = "from_aur" /\ UNCHANGED <<pkg_bases, pkg_repo_dirs, repoLog>>
       ELSE /\ pkg_bases' = Tail(pkg_bases)
            /\ updPc' = "clone"
            /\ IF Head(pkg_bases) \notin {i.pkg_base : i \in pkg_infos}
               THEN UNCHANGED <<pkg_repo_dirs, repoLog>>
               ELSE \E ok \in BOOLEAN :
                       IF ok /\ Head(pkg_bases) \notin Range(pkg_repo_dirs)
                       THEN /\ pkg_repo_dirs' = Append(pkg_repo_dirs, Head(pkg_bases))
                            /\ repoLog' = Append(repoLog, [ev |-> "git_clone",
                                                           pkgs |-> <<Head(pkg_bases)>>])
                       ELSE /\ repoLog' = Append(repoLog, [ev |-> "clone_err",
                                                           pkgs |-> <<Head(pkg_bases)>>])
                            /\ UNCHANGED pkg_repo_dirs
    /\ UNCHANGED <<UpdRest, UpdFlags, db, files, valid_pkg_names, pkg_name2base, pkg_infos,
                   pkg_upds>>

\* PkgBuild::from_aur: PkgBuild::try_from(dir/PKGBUILD)? for each cloned
\* repository.
FromAur ==
    /\ updPc = "from_aur"
    /\ \E ok \in BOOLEAN :
          /\ pkg_repo_dirs = <<>> => ok
          /\ updPc' = IF ok THEN "build" ELSE "err"
    /\ UNCHANGED <<UpdRest, UpdFlags, db, files, repoLog, valid_pkg_names, pkg_name2base,
                   pkg_infos, pkg_upds, pkg_bases, pkg_repo_dirs>>

\* The loop over the PKGBUILD files: one call of Pkg::build per file, whose
\* error is reported; then add_pkgs_to_db(&built_pkgs)?, which records the
\* version of the packages that were built.
UpdBuild ==
    /\ updPc = "build"
    /\ IF pkg_repo_dirs # <<>>
       THEN /\ \E ok \in BOOLEAN :
                  repoLog' = Append(repoLog, [ev |-> IF ok THEN "build" ELSE "build_err",
                                              pkgs |-> <<Head(pkg_repo_dirs)>>])
            /\ pkg_repo_dirs' = Tail(pkg_repo_dirs)
            /\ updPc' = "build"
            /\ UNCHANGED db
       ELSE /\ \E ok \in BOOLEAN :
                  IF ok
                  THEN /\ db' = {IF \E i \in EventsOf(repoLog, "build") :
                                       repoLog[i].pkgs = <<BaseOf(e.name)>>
                                 THEN [e EXCEPT !.version =
                                                   InfoVersion(BaseOf(e.name), pkg_infos)]
                                 ELSE e : e \in db}
                       /\ updPc' = "upload"
                  ELSE updPc' = "err" /\ UNCHANGED db
            /\ UNCHANGED <<repoLog, pkg_repo_dirs>>
    /\ UNCHANGED <<UpdRest, UpdFlags, files, valid_pkg_names, pkg_name2base, pkg_infos,
                   pkg_upds, pkg_bases>>

\* upload()? and Ok(()).
UpdUpload ==
    /\ updPc = "upload"
    /\ \E uploaded \in BOOLEAN :
          /\ ~remote => uploaded
          /\ updPc' = IF uploaded THEN "ok" ELSE "err"
    /\ UNCHANGED <<UpdRest, UpdFlags, db, files, repoLog, valid_pkg_names, pkg_name2base,
                   pkg_infos, pkg_upds, pkg_bases, pkg_repo_dirs>>

vars == <<lockVars, envVars, ctlVars>>

LockSteps(p) == LockExists(p) \/ LockRead(p) \/ LockCreate(p) \/ LockWrite(p)

UnlockSteps(p) == UnlockExists(p) \/ UnlockRead(p) \/ UnlockRemove(p)

Next ==
    \/ \E p \in {Main} :
          \/ Start(p)
          \/ LockSteps(p) \/ UnlockSteps(p) \/ DropGuard(p) \/ LeaveScope(p)
          \/ Download(p) \/ Upload(p)
          \/ CleanUp(p) \/ CleanUpCheck1(p) \/ CleanUpCheck2(p) \/ CleanUpCheck3(p)
          \/ Remove(p) \/ Sign(p) \/ List(p)
          \/ Update(p) \/ UpdateBuild(p) \/ UpdateCleaned(p)
          \/ Add(p) \/ AddBuild(p) \/ AddCleaned(p)
          \/ MakeChroot(p)
          \/ RemoveCacheDir(p) \/ RemoveCacheDirRm(p)
          \/ RemoveChrootDir(p) \/ RemoveChrootDirRm(p)
    \/ HolderReleases

Spec == Init /\ [][Next]_vars

(* ------------------------------------------------------------------ *)
(* Several processes on one repository                                 *)
(* ------------------------------------------------------------------ *)

\* The operation the racing processes execute: `repman clear --cache`.
RaceOps == {[name |-> "remove_cache_dir", mode |-> "nochroot"]}

InitRace ==
    /\ lockFile = NoFile
    /\ inoCtr = 0
    /\ fd = [p \in Procs |-> 0]
    /\ alive = {}
    /\ remote = TRUE
    /\ chroot = FALSE
    /\ tmpDir = {}
    /\ db = {}
    /\ files = {}
    /\ dbPkgs = [p \in Procs |-> {}]
    /\ NoBuild
    /\ NoUnits
    /\ NoCmd
    /\ NoAur
    /\ NoSync
    /\ pc = [p \in Procs |-> "idle"]
    /\ op = [p \in Procs |-> NoOp]
    /\ calls = [p \in Procs |-> <<>>]
    /\ guards = [p \in Procs |-> <<>>]
    /\ rv = [p \in Procs |-> "none"]
    /\ unwindTo = [p \in Procs |-> 0]
    /\ after = [p \in Procs |-> "return"]
    /\ trace = [p \in Procs |-> <<>>]
    /\ result = [p \in Procs |-> "none"]
    /\ named = [p \in Procs |-> 0]
    /\ startedFree = [p \in Procs |-> FALSE]

StartRace(p) == StartOp(p, RaceOps)

NextRace ==
    \E p \in Procs :
       \/ StartRace(p)
       \/ LockSteps(p) \/ UnlockSteps(p) \/ DropGuard(p) \/ LeaveScope(p)
       \/ RemoveCacheDir(p) \/ RemoveCacheDirRm(p)

SpecRace == InitRace /\ [][NextRace]_vars

(* ------------------------------------------------------------------ *)
(* clean_up run by one process after the other on a local repository   *)
(* ------------------------------------------------------------------ *)

CleanUpOps == {[name |-> "clean_up", mode |-> "nochroot"]}

InitCleanUp ==
    /\ lockFile = NoFile
    /\ inoCtr = 0
    /\ fd = [p \in Procs |-> 0]
    /\ alive = {}
    /\ remote = FALSE
    /\ chroot = FALSE
    /\ tmpDir = {}
    /\ db \in Dbs
    /\ files \in SUBSET AllFiles
    /\ dbPkgs = [p \in Procs |-> {}]
    /\ NoBuild
    /\ NoUnits
    /\ NoCmd
    /\ NoAur
    /\ NoSync
    /\ pc = [p \in Procs |-> "idle"]
    /\ op = [p \in Procs |-> NoOp]
    /\ calls = [p \in Procs |-> <<>>]
    /\ guards = [p \in Procs |-> <<>>]
    /\ rv = [p \in Procs |-> "none"]
    /\ unwindTo = [p \in Procs |-> 0]
    /\ after = [p \in Procs |-> "return"]
    /\ trace = [p \in Procs |-> <<>>]
    /\ result = [p \in Procs |-> "none"]
    /\ named = [p \in Procs |-> 0]
    /\ startedFree = [p \in Procs |-> FALSE]

\* `repman cleanup`, started when the processes before it have terminated. No
\* lock file exists then, so that lock never reads one.
StartCleanUp(p) ==
    /\ \A q \in Procs : q < p => pc[q] = "done"
    /\ StartOp(p, CleanUpOps)

NextCleanUp ==
    \E p \in Procs :
       \/ StartCleanUp(p)
       \/ LockExists(p) \/ LockCreate(p) \/ LockWrite(p)
       \/ UnlockSteps(p) \/ DropGuard(p) \/ LeaveScope(p)
       \/ Download(p) \/ Upload(p)
       \/ CleanUp(p) \/ CleanUpCheck1(p) \/ CleanUpCheck2(p) \/ CleanUpCheck3(p)

SpecCleanUp == InitCleanUp /\ [][NextCleanUp]_vars

(* ------------------------------------------------------------------ *)
(* A holder of the lock that is killed, and the processes started later *)
(* ------------------------------------------------------------------ *)

LockingOps ==
    {o \in OpRecords : o.name \in MutatingOps}

InitStale ==
    /\ lockFile = NoFile
    /\ inoCtr = 0
    /\ fd = [p \in Procs |-> 0]
    /\ alive = {}
    /\ remote = TRUE
    /\ chroot \in BOOLEAN
    /\ tmpDir = {}
    /\ db = {}
    /\ files = {}
    /\ dbPkgs = [p \in Procs |-> {}]
    /\ NoBuild
    /\ NoUnits
    /\ NoCmd
    /\ NoAur
    /\ NoSync
    /\ pc = [p \in Procs |-> "idle"]
    /\ op = [p \in Procs |-> NoOp]
    /\ calls = [p \in Procs |-> <<>>]
    /\ guards = [p \in Procs |-> <<>>]
    /\ rv = [p \in Procs |-> "none"]
    /\ unwindTo = [p \in Procs |-> 0]
    /\ after = [p \in Procs |-> "return"]
    /\ trace = [p \in Procs |-> <<>>]
    /\ result = [p \in Procs |-> "none"]
    /\ named = [p \in Procs |-> 0]
    /\ startedFree = [p \in Procs |-> FALSE]

\* The first process runs `repman clear --cache`; the others are started with
\* any locking sub-command after the first one was killed.
StartStale(p) ==
    IF p = Main
    THEN StartOp(p, RaceOps)
    ELSE result[Main] = "killed" /\ StartOp(p, LockingOps)

\* The process is killed between lock!(self) and the run of its guard: no
\* guard registered by defer! runs.
Crash(p) ==
    /\ p = Main
    /\ "unlock" \in Range(guards[p])
    /\ pc' = Repl(pc, p, "done")
    /\ result' = Repl(result, p, "killed")
    /\ guards' = Repl(guards, p, <<>>)
    /\ calls' = Repl(calls, p, <<>>)
    /\ UNCHANGED <<lockVars, envVars, op, rv, unwindTo, after, trace, named,
                   startedFree>>

NextStale ==
    \E p \in Procs :
       \/ StartStale(p) \/ Crash(p)
       \/ LockSteps(p) \/ UnlockSteps(p) \/ DropGuard(p) \/ LeaveScope(p)
       \/ Add(p) \/ RemoveCacheDir(p) \/ RemoveCacheDirRm(p) \/ RemoveChrootDir(p)

SpecStale == InitStale /\ [][NextStale]_vars

(* ------------------------------------------------------------------ *)
(* Pkg::build called for one PKGBUILD file                             *)
(* ------------------------------------------------------------------ *)

InitBuild ==
    /\ lockFile = NoFile
    /\ inoCtr = 0
    /\ fd = [p \in Procs |-> 0]
    /\ alive = {}
    /\ remote = FALSE
    /\ chroot = FALSE
    /\ tmpDir = {}
    /\ db = {}
    /\ files \in SUBSET BuildRepoFiles
    /\ dbPkgs = [p \in Procs |-> {}]
    /\ pc = [p \in Procs |-> "idle"]
    /\ op = [p \in Procs |-> NoOp]
    /\ calls = [p \in Procs |-> <<>>]
    /\ guards = [p \in Procs |-> <<>>]
    /\ rv = [p \in Procs |-> "none"]
    /\ unwindTo = [p \in Procs |-> 0]
    /\ after = [p \in Procs |-> "return"]
    /\ trace = [p \in Procs |-> <<>>]
    /\ result = [p \in Procs |-> "none"]
    /\ named = [p \in Procs |-> 0]
    /\ startedFree = [p \in Procs |-> FALSE]
    /\ sign \in {<<>>, <<TRUE>>, <<FALSE>>}
    /\ gpgKey \in BOOLEAN
    /\ \E names \in PkgLists :
          pkgFiles = [i \in 1..Len(names) |-> BuildFile(names[i], ListedVersion)]
    /\ pkgDir = {}
    /\ pkg = NoPkg
    /\ toBeSigned = FALSE
    /\ builtPkgs = <<>>
    /\ skipped = <<>>
    /\ buildPc = "build"
    /\ NoUnits
    /\ NoCmd
    /\ NoAur
    /\ NoSync

NextBuild == BuildStart \/ BuildLoop \/ BuildRemove \/ BuildMove \/ BuildSign

SpecBuild == InitBuild /\ [][NextBuild]_vars

(* ------------------------------------------------------------------ *)
(* add and update building the packages of some PKGBUILD files         *)
(* ------------------------------------------------------------------ *)

\* The package lists of the PKGBUILD files that are built.
UnitPkgLists == PkgLists \ {<<>>}

\* One PKGBUILD file or two different ones.
UnitLists ==
    {<<l>> : l \in UnitPkgLists}
    \cup {u \in UnitPkgLists \X UnitPkgLists : u[1] # u[2]}

\* Repository directories with package files of the listed version, with or
\* without their signature files.
UnitRepoDirs ==
    {d \in SUBSET {f \in BuildRepoFiles : EntryOf(f).version = ListedVersion} :
        \A f \in GlobSigFiles(d) : WithExtension(f) \in d}

InitUnits ==
    /\ lockFile = NoFile
    /\ inoCtr = 0
    /\ fd = [p \in Procs |-> 0]
    /\ alive = {}
    /\ remote = FALSE
    /\ chroot = FALSE
    /\ tmpDir = {}
    /\ files \in UnitRepoDirs
    /\ db = {EntryOf(f) : f \in {g \in files : IsMatch(g)}}
    /\ dbPkgs = [p \in Procs |-> {}]
    /\ pc = [p \in Procs |-> "idle"]
    /\ op = [p \in Procs |-> NoOp]
    /\ calls = [p \in Procs |-> <<>>]
    /\ guards = [p \in Procs |-> <<>>]
    /\ rv = [p \in Procs |-> "none"]
    /\ unwindTo = [p \in Procs |-> 0]
    /\ after = [p \in Procs |-> "return"]
    /\ trace = [p \in Procs |-> <<>>]
    /\ result = [p \in Procs |-> "none"]
    /\ named = [p \in Procs |-> 0]
    /\ startedFree = [p \in Procs |-> FALSE]
    /\ sign \in {<<>>, <<TRUE>>, <<FALSE>>}
    /\ gpgKey \in BOOLEAN
    /\ pkgFiles = <<>>
    /\ pkgDir = {}
    /\ pkg = NoPkg
    /\ toBeSigned = FALSE
    /\ builtPkgs = <<>>
    /\ skipped = <<>>
    /\ buildPc = "idle"
    /\ pkgbuilds \in UnitLists
    /\ built_pkgs = <<>>
    /\ addPc = "add"
    /\ repoLog = <<>>
    /\ NoCmd
    /\ NoAur
    /\ NoSync

NextUnits ==
    \/ AddStart \/ Prepare \/ UnitNext \/ UnitDone \/ AddPkgsToDb
    \/ BuildStart \/ BuildLoop \/ BuildRemove \/ BuildMove \/ BuildSign

SpecUnits == InitUnits /\ [][NextUnits]_vars

\* The calls that check the GPG key on entry: Repo::add and Pkg::build.
InitKeyCheck == InitUnits \/ InitBuild

SpecKeyCheck == InitKeyCheck /\ [][NextUnits]_vars

\* No process runs an operation of the lock model.
NoProcs ==
    /\ lockFile = NoFile
    /\ inoCtr = 0
    /\ fd = [p \in Procs |-> 0]
    /\ alive = {}
    /\ chroot = FALSE
    /\ tmpDir = {}
    /\ dbPkgs = [p \in Procs |-> {}]
    /\ pc = [p \in Procs |-> "idle"]
    /\ op = [p \in Procs |-> NoOp]
    /\ calls = [p \in Procs |-> <<>>]
    /\ guards = [p \in Procs |-> <<>>]
    /\ rv = [p \in Procs |-> "none"]
    /\ unwindTo = [p \in Procs |-> 0]
    /\ after = [p \in Procs |-> "return"]
    /\ trace = [p \in Procs |-> <<>>]
    /\ result = [p \in Procs |-> "none"]
    /\ named = [p \in Procs |-> 0]
    /\ startedFree = [p \in Procs |-> FALSE]

\* The lists of names a command is called with: names of the DB and names
\* that are not in the DB.
NameLists ==
    {<<n>> : n \in PkgNames} \cup {l \in PkgNames \X PkgNames : l[1] # l[2]}

\* The files of the repository directory at the call of sign.
SignRepoFiles ==
    {BuildFile(n, v) : n \in PkgNames, v \in Versions}
    \cup {SigFile(BuildFile(n, ListedVersion)) : n \in PkgNames}

InitSign ==
    /\ NoProcs
    /\ sign = <<>>
    /\ pkgFiles = <<>>
    /\ pkgDir = {}
    /\ pkg = NoPkg
    /\ toBeSigned = FALSE
    /\ builtPkgs = <<>>
    /\ skipped = <<>>
    /\ buildPc = "idle"
    /\ NoUnits
    /\ NoAur
    /\ NoSync
    /\ remote \in BOOLEAN
    /\ db \in Dbs
    /\ files \in SUBSET SignRepoFiles
    /\ \A f \in GlobSigFiles(files) : WithExtension(f) \in files
    /\ gpgKey \in BOOLEAN
    /\ pkg_names \in {<<>>} \cup {<<l>> : l \in NameLists}
    /\ no_confirm = FALSE
    /\ sign_db = FALSE
    /\ dbSigned = FALSE
    /\ deps = {}
    /\ valid_pkg_names = <<>>
    /\ to_be_removed = <<>>
    /\ cmdPc = "sign"

NextSign == SignStart \/ SignPkg \/ CmdUpload

SpecSign == InitSign /\ [][NextSign]_vars

\* The lists of names update is called with.
UpdNameLists ==
    {<<<<"pkg", "a">>, <<"pkg", "b">>>>, <<<<"pkg", "b">>, <<"c", "git">>>>}

InitUpdate ==
    /\ NoProcs
    /\ NoSync
    /\ NoBuild
    /\ NoUnits
    /\ remote \in BOOLEAN
    /\ db \in UpdDbs
    /\ files = {}
    /\ pkg_names \in {<<>>} \cup {<<l>> : l \in UpdNameLists}
    /\ no_confirm \in BOOLEAN
    /\ sign_db = FALSE
    /\ dbSigned = FALSE
    /\ deps = {}
    /\ valid_pkg_names = <<>>
    /\ to_be_removed = <<>>
    /\ cmdPc = "idle"
    /\ pkg_name2base = {}
    /\ pkg_infos = {}
    /\ pkg_upds = <<>>
    /\ pkg_bases = <<>>
    /\ pkg_repo_dirs = <<>>
    /\ force_no_version \in BOOLEAN
    /\ updPc = "update"

NextUpdate ==
    \/ UpdStart \/ AurNew \/ PkgsToBeUpdated \/ UpdPrepare \/ ClonePkgRepo \/ FromAur
    \/ UpdBuild \/ UpdUpload

SpecUpdate == InitUpdate /\ [][NextUpdate]_vars

\* The names AUR knows in the check of pkg_name2base_no_version: c-git,
\* c-git-x, c-github, git-c and pkg-a.
NoVersionNames ==
    {<<"c", "git">>, <<"c", "git", "x">>, <<"c", "github">>, <<"git", "c">>, <<"pkg", "a">>}

\* update with force_no_version, at the call of pkgs_to_be_updated.
InitNoVersion ==
    /\ NoProcs
    /\ NoSync
    /\ NoBuild
    /\ NoUnits
    /\ remote = FALSE
    /\ db = {}
    /\ files = {}
    /\ pkg_names = <<>>
    /\ no_confirm \in BOOLEAN
    /\ sign_db = FALSE
    /\ dbSigned = FALSE
    /\ deps = {}
    /\ valid_pkg_names = <<>>
    /\ to_be_removed = <<>>
    /\ cmdPc = "idle"
    /\ \E known \in SUBSET NoVersionNames :
          /\ pkg_name2base = {[name |-> n, pkg_base |-> BaseOf(n)] : n \in known}
          /\ pkg_infos = {[pkg_base |-> BaseOf(n), version |-> Version(0, <<1, 9>>, 1)] :
                            n \in known}
    /\ pkg_upds = <<>>
    /\ pkg_bases = <<>>
    /\ pkg_repo_dirs = <<>>
    /\ force_no_version = TRUE
    /\ updPc = "pkgs_to_be_updated"

NextNoVersion == PkgsToBeUpdated

SpecNoVersion == InitNoVersion /\ [][NextNoVersion]_vars

\* The lists of names remove is called with.
RemoveNameLists ==
    {<<<<"a">>>>, <<<<"m+">>>>, <<<<"a">>, <<"a", "b">>>>, <<<<"a", "b">>, <<"a">>>>,
     <<<<"m+">>, <<"a">>>>}

\* The DBs at the call of remove: packages of the listed version.
RemoveDbs == {d \in SUBSET [name : BuildNames, version : {ListedVersion}, arch : Archs] : TRUE}

\* The files a package can have in the repository directory: none, the
\* package file, the package file and its signature file.
FilesOfName(n) ==
    {{}, {BuildFile(n, ListedVersion)},
     {BuildFile(n, ListedVersion), SigFile(BuildFile(n, ListedVersion))}}

RemoveRepoDirs ==
    {fa \cup fb \cup fm : fa \in FilesOfName(<<"a">>), fb \in FilesOfName(<<"a", "b">>),
                          fm \in FilesOfName(<<"m+">>)}

InitRemove ==
    /\ NoProcs
    /\ sign = <<>>
    /\ pkgFiles = <<>>
    /\ pkgDir = {}
    /\ pkg = NoPkg
    /\ toBeSigned = FALSE
    /\ builtPkgs = <<>>
    /\ skipped = <<>>
    /\ buildPc = "idle"
    /\ NoUnits
    /\ NoAur
    /\ NoSync
    /\ remote \in BOOLEAN
    /\ db \in RemoveDbs
    /\ files \in RemoveRepoDirs
    /\ pkg_names \in {<<l>> : l \in RemoveNameLists}
    /\ no_confirm \in BOOLEAN
    /\ \E c \in {<<FALSE, FALSE, FALSE>>, <<FALSE, TRUE, FALSE>>, <<TRUE, TRUE, TRUE>>,
                  <<TRUE, FALSE, FALSE>>} :
          sign_db = c[1] /\ dbSigned = c[2] /\ gpgKey = c[3]
    /\ deps \in {{}, {<<"a">>}, {<<"a", "b">>, <<"m+">>}}
    /\ valid_pkg_names = <<>>
    /\ to_be_removed = <<>>
    /\ cmdPc = "remove"

NextRemove == RemoveStart \/ RemoveFilter \/ RemovePkgs \/ RemovePkgsFromDb \/ CmdUpload

SpecRemove == InitRemove /\ [][NextRemove]_vars

(* ------------------------------------------------------------------ *)
(* Server: download_repo and upload_repo                               *)
(* ------------------------------------------------------------------ *)

\* The URL schemes server::new knows.
Schemes == {"file", "rsync", "s3", "gs"}

\* The constants PKG_NAME_RSYNC, PKG_NAME_S3, PKG_NAME_GCS as they are
\* handed to download_repo! and upload_repo! by the three remote servers.
PkgNameOf(scheme) ==
    CASE scheme = "rsync" -> "rsync"
      [] scheme = "s3" -> "s3cmd"
      [] scheme = "gs" -> "google-cloud-cli"

\* The program the command of a remote server starts.
SyncCmdOf(scheme) ==
    CASE scheme = "rsync" -> "rsync"
      [] scheme = "s3" -> "s3cmd"
      [] scheme = "gs" -> "gsutil"

OptionalPkgs == {"rsync", "s3cmd", "google-cloud-cli"}

\* Server::is_remote: the default of the trait is false, the three remote
\* servers overwrite it with true.
is_remote(scheme) == scheme # "file"

\* The record logged when the command $cmd is run for the direction dir.
SyncEvent(dir, scheme) == [ev |-> dir, pkgs |-> <<SyncCmdOf(scheme)>>]

\* The files of a repository directory in the server model.
SyncDirs == {{}, {BuildFile(<<"a">>, ListedVersion)},
             {BuildFile(<<"a">>, ListedVersion), BuildFile(<<"a", "b">>, ListedVersion)}}

SyncRest == <<lockVars, chroot, tmpDir, db, dbPkgs, ctlVars, buildVars, unitVars,
              cmdVars, aurVars, auxVars, remote, server, installed>>

\* download_repo! without the check whether the required package is installed.
DownloadRepo_NoCheck ==
    /\ syncPc = "download"
    /\ IF ~is_remote(server)
       THEN /\ syncPc' = "work"
            /\ UNCHANGED <<files, remoteDir, repoLog>>
       ELSE /\ repoLog' = Append(repoLog, SyncEvent("download", server))
            /\ \E success \in BOOLEAN :
                  /\ files' = IF success THEN remoteDir ELSE files
                  /\ syncPc' = IF success THEN "work" ELSE "err"
            /\ UNCHANGED remoteDir
    /\ UNCHANGED SyncRest

\* Server::download_repo: Ok(()) for File; for the remote servers
\* download_repo! with the package and the command of the server.
\* is_pkg_installed can fail itself (checked = FALSE).
DownloadRepo ==
    /\ syncPc = "download"
    /\ IF ~is_remote(server)
       THEN /\ syncPc' = "work"
            /\ UNCHANGED <<files, remoteDir, repoLog>>
       ELSE \E checked \in BOOLEAN :
               IF ~checked \/ PkgNameOf(server) \notin installed
               THEN /\ syncPc' = "err"
                    /\ UNCHANGED <<files, remoteDir, repoLog>>
               ELSE /\ repoLog' = Append(repoLog, SyncEvent("download", server))
                    /\ \E success \in BOOLEAN :
                          /\ files' = IF success THEN remoteDir ELSE files
                          /\ syncPc' = IF success THEN "work" ELSE "err"
                    /\ UNCHANGED remoteDir
    /\ UNCHANGED SyncRest

\* The code between download and upload changes the repository directory.
SyncWork ==
    /\ syncPc = "work"
    /\ files' \in SyncDirs
    /\ syncPc' = "upload"
    /\ UNCHANGED <<SyncRest, remoteDir, repoLog>>

\* Server::upload_repo: Ok(()) for File; for the remote servers
\* upload_repo! with the package and the command of the server.
UploadRepo ==
    /\ syncPc = "upload"
    /\ IF ~is_remote(server)
       THEN /\ syncPc' = "ok"
            /\ UNCHANGED <<files, remoteDir, repoLog>>
       ELSE \E checked \in BOOLEAN :
               IF ~checked \/ PkgNameOf(server) \notin installed
               THEN /\ syncPc' = "err"
                    /\ UNCHANGED <<files, remoteDir, repoLog>>
               ELSE /\ repoLog' = Append(repoLog, SyncEvent("upload", server))
                    /\ \E success \in BOOLEAN :
                          /\ remoteDir' = IF success THEN files ELSE remoteDir
                          /\ syncPc' = IF success THEN "ok" ELSE "err"
                    /\ UNCHANGED files
    /\ UNCHANGED SyncRest

\* A repository with a server of one of the four schemes; the packages
\* installed on the machine are arbitrary, and a package can be removed
\* while the operation runs only outside of the model.
InitServer ==
    /\ NoProcs
    /\ NoBuild
    /\ NoUnits
    /\ NoCmd
    /\ NoAur
    /\ db = {}
    /\ server \in Schemes
    /\ remote = is_remote(server)
    /\ installed \in SUBSET OptionalPkgs
    /\ files \in SyncDirs
    /\ remoteDir \in IF is_remote(server) THEN SyncDirs ELSE {{}}
    /\ syncPc = "download"
    /\ db_name = RepoName
    /\ path = <<>>
    /\ fields = <<>>

NextServer == DownloadRepo \/ SyncWork \/ UploadRepo

SpecServer == InitServer /\ [][NextServer]_vars

(* ------------------------------------------------------------------ *)
(* RE_PKG_FILE at the level of characters                              *)
(* ------------------------------------------------------------------ *)

\* A path is a sequence of symbols: "-", "/" and "." are the characters,
\* every other symbol stands for a run of characters that are none of them.
Sub(p, i, j) == SubSeq(p, i, j)

\* [^-]+ and [^\.]+ match t, .+ matches every non-empty text.
NoDash(t) == t # <<>> /\ \A i \in 1..Len(t) : t[i] # "-"
NoDot(t) == t # <<>> /\ \A i \in 1..Len(t) : t[i] # "."

\* The literal \.pkg\.tar\. of the sixth group.
PkgTar == <<".", "pkg", ".", "tar", ".">>

\* (\.pkg\.tar\.[^\.]+)$ matches t.
IsPkgExt(t) ==
    /\ Len(t) > Len(PkgTar)
    /\ Sub(t, 1, Len(PkgTar)) = PkgTar
    /\ NoDot(Sub(t, Len(PkgTar) + 1, Len(t)))

\* The ways RE_PKG_FILE matches the path p from ^ to $: <<i1, ..., i5>>
\* where group k ends at i[k]; i1 = 0 is the match without group 1, and the
\* three dashes of the expression stand after groups 2, 3 and 4.
Splits(p) ==
    UNION {UNION {UNION {UNION {
        {<<i1, i2, i3, i4, i5>> : i1 \in {i \in 0..(i2 - 1) : i > 0 => p[i] = "/"}}
            : i2 \in {i \in 1..(i3 - 2) : p[i + 1] = "-" /\ NoDash(Sub(p, i + 2, i3))}}
            : i3 \in {i \in 1..(i4 - 2) : p[i + 1] = "-" /\ NoDash(Sub(p, i + 2, i4))}}
            : i4 \in {i \in 1..(i5 - 2) : p[i + 1] = "-" /\ NoDash(Sub(p, i + 2, i5))}}
            : i5 \in {i \in 1..Len(p) : IsPkgExt(Sub(p, i + 1, Len(p)))}}

\* s comes before t in the order in which the expression is tried: every
\* quantifier is greedy, so the longer group 1 first, then the longer group
\* 2 and so on.
TriedBefore(s, t) == \E k \in 1..5 : s[k] > t[k] /\ \A j \in 1..(k - 1) : s[j] = t[j]

\* RE_PKG_FILE.is_match(p).
IsPkgPath(p) == Splits(p) # {}

\* The six groups of the match without the directory as a group: the
\* expression with (?:.*/)? in place of (.*/)?.
Captures_DirNotCaptured(p) ==
    LET s == CHOOSE s \in Splits(p) : \A t \in Splits(p) \ {s} : TriedBefore(s, t)
    IN  <<<<>>, Sub(p, s[1] + 1, s[2]), Sub(p, s[2] + 2, s[3]),
          Sub(p, s[3] + 2, s[4]), Sub(p, s[4] + 2, s[5]), Sub(p, s[5] + 1, Len(p))>>

\* RE_PKG_FILE.captures(p): the six groups of the first match that is
\* found (Pkg::name takes group 2 of it, Pkg::version groups 3 and 4).
Captures(p) ==
    LET s == CHOOSE s \in Splits(p) : \A t \in Splits(p) \ {s} : TriedBefore(s, t)
    IN  <<Sub(p, 1, s[1]), Sub(p, s[1] + 1, s[2]), Sub(p, s[2] + 2, s[3]),
          Sub(p, s[3] + 2, s[4]), Sub(p, s[4] + 2, s[5]), Sub(p, s[5] + 1, Len(p))>>

\* The fields of a package file in the canonical form
\* DIR NAME-VERSION-RELEASE-ARCH EXT.
CanonicalPath(f) == f[1] \o f[2] \o <<"-">> \o f[3] \o <<"-">> \o f[4] \o <<"-">> \o f[5] \o f[6]

\* The texts the paths are put together from.
PathDirs == {<<>>, <<"/">>, <<"d", "/">>, <<"d", "/", "/">>, <<"d", "-", "x", "/">>}
PathNames == {<<"a">>, <<"a", "-", "b">>, <<"a", "-">>, <<"-">>, <<"a", ".", "b">>}
PathVers == {<<>>, <<"1">>, <<"1", ".", "2">>}
PathRels == {<<"1">>, <<"1", "/", "2">>}
PathArchs == {<<"x">>, <<"x", "/", "y">>, <<"x">> \o PkgTar \o <<"y">>}
PathExts == {PkgTar \o <<"zst">>, PkgTar \o <<"zst", ".", "sig">>, PkgTar, <<".", "tar", ".", "zst">>}

Paths ==
    {d \o n \o <<"-">> \o v \o <<"-">> \o r \o <<"-">> \o a \o e :
        d \in PathDirs, n \in PathNames, v \in PathVers, r \in PathRels,
        a \in PathArchs, e \in PathExts}

\* Pkg::try_from of an existing file and the captures Pkg::name and
\* Pkg::version take from RE_PKG_FILE.
PkgTryFrom ==
    /\ syncPc = "try_from"
    /\ IF IsPkgPath(path)
       THEN fields' = Captures(path) /\ syncPc' = "pkg"
       ELSE fields' = <<>> /\ syncPc' = "invalid"
    /\ UNCHANGED <<lockVars, remote, chroot, tmpDir, db, dbPkgs, files, ctlVars, buildVars,
                   unitVars, repoLog, cmdVars, aurVars, server, installed, remoteDir,
                   db_name, path>>

InitParse ==
    /\ NoProcs
    /\ NoBuild
    /\ NoUnits
    /\ NoCmd
    /\ NoAur
    /\ remote = FALSE
    /\ db = {}
    /\ files = {}
    /\ server = "file"
    /\ installed = {}
    /\ remoteDir = {}
    /\ syncPc = "try_from"
    /\ db_name = RepoName
    /\ path \in Paths
    /\ fields = <<>>

NextParse == PkgTryFrom

SpecParse == InitParse /\ [][NextParse]_vars

(* ------------------------------------------------------------------ *)
(* Repo::add: the packages from AUR                                    *)
(* ------------------------------------------------------------------ *)

\* A package base as a name: the key of pkg_infos a name is compared with.
NameOfBase(b) == IF b = "c-git" THEN <<"c", "git">> ELSE <<"base1">>

\* The AUR names add is called with: pkg-a and pkg-b are members of the
\* split package base1, c-git is its own base.
AddAurLists ==
    {<<<<"pkg", "a">>>>, <<<<"c", "git">>>>, <<<<"c", "git">>, <<"pkg", "a">>>>,
     <<<<"pkg", "a">>, <<"pkg", "b">>>>, <<<<"x">>, <<"c", "git">>>>,
     <<<<"pkg", "b">>, <<"c", "git">>, <<"pkg", "a">>>>}

\* The names AUR knows.
AurNames == UpdNames

\* The error messages of check_exists for the names of s that are not in known.
RECURSIVE NotFound(_, _)
NotFound(s, known) ==
    IF s = <<>> THEN <<>>
    ELSE (IF Head(s) \in known THEN <<>> ELSE <<[ev |-> "aur_err", pkgs |-> <<Head(s)>>]>>)
         \o NotFound(Tail(s), known)

\* AurData::new(aur_pkg_names, true)?: pkg_name2base gets the names of the
\* response, pkg_infos is keyed by the package base of the items, and an
\* error is reported for every requested name without an item.
AddAurNew ==
    /\ updPc = "add_aur"
    /\ \E ok \in BOOLEAN, known \in SUBSET (Range(pkg_names[1]) \cap AurNames) :
          IF ~ok
          THEN updPc' = "err" /\ UNCHANGED <<pkg_name2base, pkg_infos, repoLog, valid_pkg_names>>
          ELSE /\ pkg_name2base' = {[name |-> n, pkg_base |-> BaseOf(n)] : n \in known}
               /\ pkg_infos' = {[pkg_base |-> BaseOf(n), version |-> Version(0, <<1, 9>>, 1)] :
                                  n \in known}
               /\ repoLog' = repoLog \o NotFound(pkg_names[1], known)
               /\ valid_pkg_names' = pkg_names[1]
               /\ updPc' = "add_clone"
    /\ UNCHANGED <<UpdRest, UpdFlags, db, files, pkg_upds, pkg_bases, pkg_repo_dirs>>

\* clone_pkg_repos(Some(aur_pkg_names), pkgbuild_dir): filter_map keeps the
\* requested names that are keys of pkg_infos and drops the other names; the
\* names kept are cloned with `git clone <uri>/<name>.git <dir>/<name>`, an
\* error of which is reported.
AddClonePkgRepos ==
    /\ updPc = "add_clone"
    /\ IF valid_pkg_names = <<>>
       THEN updPc' = "from_aur" /\ UNCHANGED <<valid_pkg_names, pkg_repo_dirs, repoLog>>
       ELSE /\ valid_pkg_names' = Tail(valid_pkg_names)
            /\ updPc' = "add_clone"
            /\ IF Head(valid_pkg_names) \notin {NameOfBase(i.pkg_base) : i \in pkg_infos}
               THEN UNCHANGED <<pkg_repo_dirs, repoLog>>
               ELSE \E ok \in BOOLEAN :
                       IF ok /\ Head(valid_pkg_names) \notin Range(pkg_repo_dirs)
                       THEN /\ pkg_repo_dirs' = Append(pkg_repo_dirs, Head(valid_pkg_names))
                            /\ repoLog' = Append(repoLog, [ev |-> "git_clone",
                                                           pkgs |-> <<Head(valid_pkg_names)>>])
                       ELSE /\ repoLog' = Append(repoLog, [ev |-> "clone_err",
                                                           pkgs |-> <<Head(valid_pkg_names)>>])
                            /\ UNCHANGED pkg_repo_dirs
    /\ UNCHANGED <<UpdRest, UpdFlags, db, files, pkg_name2base, pkg_infos, pkg_upds, pkg_bases>>

\* add is called with AUR package names and no directory of a PKGBUILD.
InitAddAur ==
    /\ NoProcs
    /\ NoSync
    /\ NoBuild
    /\ NoUnits
    /\ remote \in BOOLEAN
    /\ db = {}
    /\ files = {}
    /\ pkg_names \in {<<l>> : l \in AddAurLists}
    /\ no_confirm = FALSE
    /\ sign_db = FALSE
    /\ dbSigned = FALSE
    /\ deps = {}
    /\ valid_pkg_names = <<>>
    /\ to_be_removed = <<>>
    /\ cmdPc = "idle"
    /\ pkg_name2base = {}
    /\ pkg_infos = {}
    /\ pkg_upds = <<>>
    /\ pkg_bases = <<>>
    /\ pkg_repo_dirs = <<>>
    /\ force_no_version = FALSE
    /\ updPc = "add_aur"

NextAddAur == AddAurNew \/ AddClonePkgRepos \/ FromAur

SpecAddAur == InitAddAur /\ [][NextAddAur]_vars

(* ------------------------------------------------------------------ *)
(* add_pkgs_to_db and remove_pkgs_from_db with the signing of the DB   *)
(* ------------------------------------------------------------------ *)

\* The names of the DB in the configuration: the default, which is the name
\* of the repository, and a name of its own.
DbNamesOfCfg == {RepoName, "custom"}

\* The package files add_pkgs_to_db is called with.
DbAddLists ==
    {<<>>, <<BuildFile(<<"a">>, <<"2", "1">>)>>,
     <<BuildFile(<<"a">>, ListedVersion), BuildFile(<<"a", "b">>, ListedVersion)>>}

\* The names remove_pkgs_from_db is called with.
DbRemoveLists == {<<>>, <<<<"a">>>>, <<<<"a", "b">>, <<"a">>>>}

\* The state at the call of add_pkgs_to_db (in add or update) or of
\* remove_pkgs_from_db (in remove), for every configuration of the signing
\* of the DB.
InitDb ==
    /\ NoProcs
    /\ NoAur
    /\ sign = <<>>
    /\ gpgKey \in BOOLEAN
    /\ pkgFiles = <<>>
    /\ pkgDir = {}
    /\ pkg = NoPkg
    /\ toBeSigned = FALSE
    /\ builtPkgs = <<>>
    /\ skipped = <<>>
    /\ buildPc = "idle"
    /\ pkgbuilds = <<>>
    /\ repoLog = <<>>
    /\ remote \in BOOLEAN
    /\ db \in {d \in RemoveDbs : \A e \in d : e.name # <<"m+">>}
    /\ files = {BuildFile(e.name, e.version) : e \in db}
                  \cup {BuildFile(<<"a">>, <<"2", "1">>)}
    /\ pkg_names = <<>>
    /\ no_confirm = FALSE
    /\ sign_db \in BOOLEAN
    /\ dbSigned \in BOOLEAN
    /\ deps = {}
    /\ valid_pkg_names = <<>>
    /\ \E adding \in BOOLEAN :
          IF adding
          THEN /\ built_pkgs \in DbAddLists
               /\ addPc = "add_pkgs_to_db"
               /\ to_be_removed = <<>>
               /\ cmdPc = "idle"
          ELSE /\ built_pkgs = <<>>
               /\ addPc = "idle"
               /\ to_be_removed \in DbRemoveLists
               /\ cmdPc = "remove_pkgs_from_db"
    /\ server = "file"
    /\ installed = {}
    /\ remoteDir = {}
    /\ syncPc = "idle"
    /\ db_name \in DbNamesOfCfg
    /\ path = <<>>
    /\ fields = <<>>

NextDb == AddPkgsToDb \/ RemovePkgsFromDb \/ CmdUpload

SpecDb == InitDb /\ [][NextDb]_vars

(* ------------------------------------------------------------------ *)
(* Claims                                                              *)
(* ------------------------------------------------------------------ *)

\* lock() returned Ok to p and the guard that calls unlock has not run yet.
Holds(p) == "unlock" \in Range(guards[p])

\* The lock file exists and holds exactly the PID of p.
LockedBy(p) == lockFile # NoFile /\ lockFile.data = Format(Pid(p))

\* C1: mutual exclusion. No two processes with distinct PIDs have both
\* returned success from lock without either having run unlock: at most one
\* process holds the repository lock at a time.
C1_MutualExclusion ==
    \A p \in Procs : \A q \in Procs \ {p} : ~(Holds(p) /\ Holds(q))

\* C2: in every operation wrapped in lock! and exec_on_repo!, once the lock
\* was acquired and download succeeded, upload is executed before the
\* operation returns, also when the code block returns an error partway.
C2_UploadBeforeReturn ==
    \A p \in Procs :
       (/\ op[p].name \in TxOps
        /\ result[p] \in {"ok", "err"}
        /\ Did(p, "lock")
        /\ Did(p, "download"))
       => (Did(p, "upload") \/ Did(p, "upload_err"))

SyncOrChange ==
    {"download", "download_err", "mirror_write", "db_write", "db_write_err",
     "upload", "upload_err"}

\* C3: if lock acquisition fails in clean_up, remove, sign, update or at the
\* lock step of add, the operation returns an error and executes no download,
\* no change to the mirror directory or to the database, and no upload.
C3_LockFailureStopsOperation ==
    \A p \in Procs :
       (op[p].name \in TxOps /\ Did(p, "lock_err"))
       => /\ Range(trace[p]) \cap SyncOrChange = {}
          /\ rv[p] = "err"
          /\ result[p] \in {"none", "err"}

C3_Witness ==
    \E p \in Procs :
       /\ op[p].name = "add"
       /\ Did(p, "lock_err")
       /\ result[p] = "err"
       /\ lockFile # NoFile

\* C4: for every mutating operation that is started when no lock file exists
\* and acquires the lock, the lock file no longer exists when the operation
\* terminates, on every exit path: success, early return and error.
C4_LockFileGoneOnExit ==
    \A p \in Procs :
       (/\ op[p].name \in MutatingOps
        /\ startedFree[p]
        /\ Did(p, "lock")
        /\ result[p] # "none")
       => lockFile = NoFile

\* An early return: update with an empty update set.
C4_Witness ==
    \E p \in Procs :
       /\ op[p].name = "update"
       /\ startedFree[p]
       /\ Did(p, "lock")
       /\ Did(p, "download")
       /\ ~Did(p, "mktmp")
       /\ ~Did(p, "upload")
       /\ result[p] = "ok"

\* The positions of a wrapped operation between lock! and the end of upload.
SectionPcs ==
    {"download", "clean_up", "clean_up.check1", "clean_up.check2",
     "clean_up.check3", "remove", "sign", "update", "update.build",
     "update.cleaned", "add.build", "add.cleaned", "upload"}

InLockedSection(p) ==
    /\ op[p].name \in TxOps
    /\ Did(p, "lock")
    /\ result[p] = "none"
    /\ \/ Len(calls[p]) = 2
       \/ pc[p] \in SectionPcs
       \/ pc[p] = "unwind" /\ after[p] # "return"

\* C5: in every mutating operation the process holds the lock (lock file
\* present and containing its PID) continuously from acquisition until after
\* upload has finished, also in add and update with clean_chroot, where
\* remove_chroot_dir is called inside the locked section before upload.
C5_LockHeldUntilUploaded ==
    \A p \in Procs : InLockedSection(p) => LockedBy(p)

CleanUpFailures ==
    {"db_read_err", "pkg_ext_err", "db_write_err", "rm_file_err", "download_err", "upload_err"}

\* C6: clean-up idempotence: when clean_up is run twice in succession without
\* failures, each run reading the DB at its start, the second run removes no
\* DB entry and deletes no file.
C6_CleanUpIdempotent ==
    \A p \in Procs : \A q \in Procs :
       (/\ q + 1 = p
        /\ result[q] = "ok"
        /\ \A r \in Procs : Range(trace[r]) \cap CleanUpFailures = {})
       => (~Did(p, "db_write") /\ ~Did(p, "mirror_write"))

\* C7: releasing a lock that is not held (the lock file does not exist when
\* the guard registered by lock! runs unlock) is a no-op or an
\* ownership-mismatch error; it never panics or otherwise crashes the process.
C7_UnheldUnlockNeverPanics ==
    [][\A p \in Procs :
          (pc[p] = "unlock.remove" /\ pc'[p] # pc[p] /\ lockFile = NoFile)
          => (rv'[p] # "panic" /\ result'[p] \notin {"panic", "abort"})]_vars

RecordsOther(p) ==
    /\ lockFile # NoFile
    /\ ~ParseFails(lockFile.data)
    /\ ParseDigits(lockFile.data) # Pid(p)

\* C8: lock on a repository whose lock file records a PID different from the
\* caller's fails with an error naming that PID, whether the recorded process
\* is alive or dead, and leaves the lock file and its content unchanged.
C8_LockedByOtherFails ==
    [][\A p \in Procs :
          /\ (pc[p] = "lock.read" /\ pc'[p] # pc[p] /\ RecordsOther(p))
             => /\ pc'[p] = "unwind"
                /\ rv'[p] = "err"
                /\ named'[p] = ParseDigits(lockFile.data)
                /\ guards'[p] = guards[p]
                /\ lockFile' = lockFile
          /\ (named'[p] # 0 /\ alive' = alive) => lockFile' = lockFile]_vars

\* The operation ended with the error, the recorded process is dead, and its
\* lock file is still there.
C8_Witness ==
    \E p \in Procs : \E q \in Procs \ {p} :
       /\ named[p] = Pid(q)
       /\ result[p] = "err"
       /\ alive = {}
       /\ LockedBy(q)

\* C9: lock with no lock file present creates the lock file containing the
\* caller's PID and succeeds; lock when the file already contains the
\* caller's PID succeeds and leaves the file unchanged.
C9_LockCreatesOrReenters ==
    [][\A p \in Procs :
          /\ (pc[p] = "lock.exists" /\ pc'[p] # pc[p] /\ lockFile = NoFile)
             => pc'[p] = "lock.create"
          /\ (pc[p] = "lock.create" /\ pc'[p] # pc[p])
             => (pc'[p] = "lock.write" /\ lockFile' # NoFile)
          /\ (pc[p] = "lock.write" /\ pc'[p] # pc[p])
             => /\ lockFile' # NoFile
                /\ lockFile'.data = Format(Pid(p))
                /\ trace'[p] = Append(trace[p], "lock")
                /\ pc'[p] = AfterLock(TopFrame(p).fn)
          /\ (pc[p] = "lock.read" /\ pc'[p] # pc[p] /\ LockedBy(p))
             => /\ lockFile' = lockFile
                /\ trace'[p] = Append(trace[p], "lock")
                /\ pc'[p] = AfterLock(TopFrame(p).fn)]_vars

\* The lock was created by the operation and entered again by the
\* remove_chroot_dir it calls.
C9_Witness ==
    \E p \in Procs :
       /\ startedFree[p]
       /\ Len(calls[p]) = 2
       /\ pc[p] = "rcd.rm"
       /\ LockedBy(p)

\* C10: unlock when the lock file records a PID different from the caller's
\* returns an error and neither removes nor alters the lock file; unlock when
\* the file records the caller's PID removes the file.
C10_UnlockChecksOwner ==
    [][\A p \in Procs :
          /\ (pc[p] = "unlock.read" /\ pc'[p] # pc[p] /\ RecordsOther(p))
             => /\ lockFile' = lockFile
                /\ trace'[p] = Append(trace[p], "unlock_mismatch")
                /\ pc'[p] # "unlock.remove"
          /\ (pc[p] = "unlock.read" /\ pc'[p] # pc[p] /\ LockedBy(p))
             => pc'[p] = "unlock.remove"
          /\ (pc[p] = "unlock.remove" /\ pc'[p] # pc[p] /\ lockFile # NoFile)
             => lockFile' = NoFile]_vars

\* One process found the PID of another one in the lock file when unlocking,
\* and the file is still there.
C10_Witness ==
    \E p \in Procs : \E q \in Procs \ {p} :
       /\ Did(p, "unlock_mismatch")
       /\ LockedBy(q)
       /\ result[p] = "panic"

\* The lock file records the PID of a process that was killed.
StaleBy(q) ==
    /\ result[q] = "killed"
    /\ lockFile # NoFile
    /\ lockFile.data = Format(Pid(q))

\* C11: stale lock permanence: when a process is killed while it holds the
\* lock, the lock file persists; every later lock attempt of a process with
\* another PID fails, and no step of the program removes or overwrites a lock
\* file that records another PID.
C11_StaleLockPermanent ==
    [][\A q \in Procs :
          /\ (result[q] # "killed" /\ result'[q] = "killed") => StaleBy(q)'
          /\ StaleBy(q) => lockFile' = lockFile
          /\ \A p \in Procs \ {q} :
                /\ (StaleBy(q) /\ pc[p] = "lock.exists" /\ pc'[p] # pc[p])
                   => pc'[p] = "lock.read"
                /\ (StaleBy(q) /\ pc[p] = "lock.read" /\ pc'[p] # pc[p])
                   => /\ rv'[p] = "err"
                      /\ named'[p] = Pid(q)
                      /\ trace'[p] = Append(trace[p], "lock_err")
                /\ (RecordsOther(p) /\ (pc'[p] # pc[p] \/ guards'[p] # guards[p]))
                   => lockFile' = lockFile]_vars

\* A process started after the holder was killed ended with the error of
\* lock, and the lock file of the killed process is still there.
C11_Witness ==
    \E q \in Procs : \E p \in Procs \ {q} :
       /\ StaleBy(q)
       /\ result[p] = "err"
       /\ named[p] = Pid(q)
       /\ op[p].name = "remove"

\* What the unit of work reads and writes in the local repository directory.
MirrorAccess ==
    {"db_exists", "db_read", "db_read_err", "db_write", "db_write_err",
     "mirror_write", "rm_file_err"}

\* C12: in every operation wrapped in exec_on_repo!, the DB is read and the
\* repository directory is accessed only after download has succeeded; when
\* download fails, neither the unit of work nor upload is executed, the
\* operation returns the error and the lock is released.
C12_DownloadBeforeWork ==
    \A p \in Procs :
       op[p].name \in TxOps
       => /\ \A i \in 1..Len(trace[p]) :
                trace[p][i] \in MirrorAccess \cup {"upload", "upload_err"}
                => \E j \in 1..(i - 1) : trace[p][j] = "download"
          /\ Did(p, "download_err")
             => /\ Range(trace[p]) \cap (MirrorAccess \cup {"download", "upload", "upload_err"}) = {}
                /\ result[p] # "none" => (result[p] = "err" /\ ~LockedBy(p))

C12_Witness ==
    \E p \in Procs :
       /\ op[p].name = "update"
       /\ Did(p, "lock")
       /\ Did(p, "download_err")
       /\ result[p] = "err"
       /\ lockFile = NoFile

\* C13: whenever an operation creates the temporary directory of the process
\* (add, update, make_chroot), that directory no longer exists when the
\* operation returns, with success or with an error.
C13_TmpDirRemoved ==
    \A p \in Procs :
       (Did(p, "mktmp") /\ result[p] \in {"ok", "err"})
       => (p \notin tmpDir /\ Did(p, "rmtmp"))

\* update returned an error from inside the block of exec_with_tmp_data!.
C13_Witness ==
    \E p \in Procs :
       /\ op[p].name = "update"
       /\ Did(p, "mktmp")
       /\ Did(p, "db_write_err")
       /\ result[p] = "err"
       /\ p \notin tmpDir

\* clean_up of p has returned Ok(()) without a failure of a deletion, and no
\* process was started after it.
CleanedUp(p) ==
    /\ op[p].name = "clean_up"
    /\ result[p] = "ok"
    /\ Range(trace[p]) \cap CleanUpFailures = {}
    /\ \A q \in Procs : q > p => pc[q] = "idle"

\* C14: check #2 of clean_up also removes the package files of a name that
\* check #1 removed from the DB in the same run: after clean_up no package
\* file is left whose name has no entry in the resulting DB.
C14_NoFileWithoutEntry ==
    \A p \in Procs :
       CleanedUp(p)
       => \A f \in GlobPkgFiles(files, PkgExt) :
             ~TryFromFails(f, files) => PkgName(f) \in DbNames(db)

\* The package file of DB entry e exists in the repository directory.
HasExactFile(e) ==
    [segs |-> e.name \o e.version \o <<e.arch>>, ext |-> PkgExt] \in files

\* The events check #1 of p appends in a step.
Check1Events(p) == SubSeq(trace'[p], Len(trace[p]) + 1, Len(trace'[p]))

\* C15: check #1 of clean_up marks exactly the DB entries whose file
\* <name>-<version>-<arch><ext> does not exist in the repository directory,
\* removes the marked names with one call that changes the DB (none when
\* nothing is marked) and leaves every entry whose file exists in the DB.
C15_Check1RemovesEntriesWithoutFile ==
    [][\A p \in Procs :
          (pc[p] = "clean_up.check1" /\ pc'[p] # pc[p]
             /\ "pkg_ext_err" \notin Range(Check1Events(p)))
          => /\ (\A e \in dbPkgs[p] : HasExactFile(e))
                   => (Check1Events(p) = <<>> /\ db' = db)
             /\ (\E e \in dbPkgs[p] : ~HasExactFile(e))
                   => Check1Events(p) \in {<<"db_write">>, <<"db_write_err">>}
             /\ Check1Events(p) # <<"db_write">> => db' = db
             /\ Check1Events(p) = <<"db_write">>
                   => \A e \in db : e \in db' <=> HasExactFile(e)
             /\ db' \subseteq db
             /\ files' = files]_vars

C15_Witness ==
    \E p \in Procs :
       /\ pc[p] = "clean_up.check2"
       /\ trace[p] = <<"lock", "download", "db_exists", "db_read", "db_write">>
       /\ \E e \in dbPkgs[p] : e \in db /\ HasExactFile(e)
       /\ \E e \in dbPkgs[p] :
             /\ e \notin db
             /\ ~HasExactFile(e)
             /\ \E f \in files : ~TryFromFails(f, files) /\ PkgName(f) = e.name

\* f is a package file of dir: <name>-<pkgver>-<pkgrel>-<arch><ext>.
IsPkgFile(f, dir) == f \in dir /\ Len(f.segs) >= 4 /\ f.ext = PkgExt

\* The name of f is a key of the DB snapshot p has read.
InSnapshot(p, f) ==
    \E e \in dbPkgs[p] : f.segs = e.name \o SubSeq(f.segs, Len(e.name) + 1, Len(f.segs))
                         /\ Len(f.segs) = Len(e.name) + 3

IsSigFile(f) == Len(f.ext) > 0 /\ f.ext[Len(f.ext)] = "sig"

\* The file a *.sig file belongs to: the path without the suffix .sig.
Counterpart(f) == [segs |-> f.segs, ext |-> SubSeq(f.ext, 1, Len(f.ext) - 1)]

\* C17: when check #3 of clean_up has run without a failure of a deletion, no
\* *.sig file remains in the repository directory whose counterpart without
\* .sig does not exist, the signatures of the package files that check #2
\* deleted in the same run included; signature files whose counterpart exists
\* are left unchanged.
C17_Check3RemovesSigsWithoutFile ==
    [][\A p \in Procs :
          (pc[p] = "clean_up.check3" /\ pc'[p] # pc[p])
          => /\ files' \subseteq files
             /\ \A f \in files \ files' : IsSigFile(f) /\ Counterpart(f) \notin files
             /\ trace'[p] \in {trace[p], Append(trace[p], "mirror_write")}
                   => \A f \in files' : IsSigFile(f) => Counterpart(f) \in files'
             /\ pc'[p] = "upload"]_vars

C17_Witness ==
    \E p \in Procs :
       /\ pc[p] = "upload"
       /\ "rm_file_err" \notin Range(trace[p])
       /\ SubSeq(trace[p], Len(trace[p]) - 1, Len(trace[p])) = <<"mirror_write", "mirror_write">>
       /\ \E f \in files : IsSigFile(f)
       /\ \E n \in PkgNames \ DbNames(dbPkgs[p]) :
             /\ \A g \in PkgFiles : g \in files <=> PkgName(g) # n
             /\ \A f \in SigFiles : PkgName(Counterpart(f)) = n => f \notin files

\* A step of p appends the report of a failed fs::remove_file.
DeletionFails(p) ==
    /\ Len(trace'[p]) > Len(trace[p])
    /\ trace'[p][Len(trace'[p])] = "rm_file_err"

\* C18: in checks #2 and #3 of clean_up a failure to delete one file is
\* reported and the loop goes on: every other candidate is deleted, the later
\* checks and the upload run, and clean_up returns Ok(()).
C18_DeletionFailureIsNotFatal ==
    [][\A p \in Procs :
          /\ (pc[p] = "clean_up.check2" /\ DeletionFails(p))
             => /\ pc'[p] = "clean_up.check3"
                /\ Cardinality({f \in files' : IsPkgFile(f, files') /\ ~InSnapshot(p, f)}) = 1
          /\ (pc[p] = "clean_up.check3" /\ DeletionFails(p))
             => /\ pc'[p] = "upload"
                /\ Cardinality({f \in files' : IsSigFile(f) /\ Counterpart(f) \notin files'}) = 1
          /\ (Did(p, "rm_file_err") /\ result[p] = "none" /\ result'[p] # "none")
             => /\ Did(p, "upload") \/ Did(p, "upload_err")
                /\ Did(p, "upload") => result'[p] = "ok"]_vars

C18_Witness ==
    \E p \in Procs :
       /\ result[p] = "ok"
       /\ SubSeq(trace[p], Len(trace[p]) - 5, Len(trace[p]) - 1)
             = <<"mirror_write", "rm_file_err", "mirror_write", "rm_file_err", "upload">>
       /\ \E f \in files : IsPkgFile(f, files) /\ ~InSnapshot(p, f)
       /\ \E f \in files : IsSigFile(f) /\ Counterpart(f) \notin files

\* f and g are package files of the same name, architecture and extension.
SameIdentity(f, g) ==
    /\ Len(f.segs) >= 4 /\ Len(g.segs) >= 4
    /\ SubSeq(f.segs, 1, Len(f.segs) - 3) = SubSeq(g.segs, 1, Len(g.segs) - 3)
    /\ f.segs[Len(f.segs)] = g.segs[Len(g.segs)]
    /\ f.ext = g.ext

\* C19: sticky signing. With sign = Some(x) the new package file is signed iff
\* x; with sign = None it is signed iff, before the old files are removed, the
\* repository directory holds a signature file of a package file of the same
\* name, architecture and extension; a signature of a package of another name
\* never causes signing. Stated for a package file that was built for the
\* listed package.
C19_StickySigning ==
    [][/\ (buildPc = "loop" /\ buildPc' = "remove" /\ SameIdentity(pkg', Head(pkgFiles)))
          => toBeSigned' = IF sign # <<>> THEN sign[1]
                           ELSE \E f \in files :
                                   IsSigFile(f) /\ SameIdentity(Counterpart(f), pkg')
       /\ (buildPc = "sign" /\ buildPc' = "loop")
          => (toBeSigned <=> SigFile(pkg) \in files')]_vars

\* The package files of dir with the name, architecture and extension of f.
OfIdentity(f, dir) == {g \in dir : IsPkgFile(g, dir) /\ SameIdentity(g, f)}

\* C20: in Pkg::build the older files of the identity of an output are removed
\* from the repository directory before the new file is moved in; after an
\* output was processed successfully the directory holds exactly one package
\* file of that identity, the new one, also when old and new version are equal.
C20_OldFilesRemovedBeforeMove ==
    [][/\ \A f \in files' \ files :
             IsPkgFile(f, files')
             => (buildPc = "move" /\ f = pkg /\ OfIdentity(pkg, files) = {})
       /\ (buildPc = "sign" /\ buildPc' = "loop")
          => OfIdentity(pkg, files') = {pkg}]_vars

\* C21: partial-batch tolerance. When only some of the listed package files
\* are found after the build, Pkg::build reports and skips each missing one,
\* processes the others and returns Ok with exactly the packages that were
\* found: a reported file is the file of a package that was not collected, and
\* no built file is left behind.
C21_PartialBatchTolerance ==
    [][(buildPc = "loop" /\ buildPc' = "ok")
       => /\ \A f \in Range(skipped) : \A g \in Range(builtPkgs) : ~SameIdentity(f, g)
          /\ pkgDir = {}]_vars

\* The package files and signature files of dir with the name, architecture
\* and extension of the package file f.
FilesOfPkg(f, dir) ==
    {g \in dir : \/ IsPkgFile(g, dir) /\ SameIdentity(g, f)
                 \/ IsSigFile(g) /\ SameIdentity(Counterpart(g), f)}

\* C29: remove_from_dir(dir) deletes exactly the package files of dir with the
\* name, architecture and extension of the package, of any version and
\* release, and their .sig files; every other file, the files of a package
\* whose name is this name followed by a hyphen and more included, is left
\* unchanged; without a matching file nothing changes and Ok is returned.
C29_RemoveFromDirExact ==
    [][/\ (buildPc = "remove" /\ buildPc' = "move")
          => files' = files \ FilesOfPkg(pkg, files)
       /\ (buildPc = "remove" /\ FilesOfPkg(pkg, files) = {})
          => (buildPc' = "move" /\ files' = files)]_vars

\* C30: the pattern pattern_ignore_version builds for a package file matches
\* every file <name>-V-R-<arch><ext> of that name, for any version V and
\* release R, and no file of a package of another name.
C30_GlobWidening ==
    [][(buildPc = "loop" /\ pkgFiles # <<>>)
       => /\ buildPc' = "remove" => SameIdentity(pkg', Head(pkgFiles))
          /\ pkgFiles' # pkgFiles
                => \A g \in pkgDir : ~SameIdentity(g, Head(pkgFiles))]_vars

\* A step appends the event e to repoLog.
Logs(e) == Len(repoLog') = Len(repoLog) + 1 /\ repoLog'[Len(repoLog')].ev = e

\* C22: in add and update a failing build unit is reported and skipped and
\* the remaining units are still built; the command that adds packages to the
\* DB is run at most once, after all units were processed, with exactly the
\* packages the successful units returned, and not at all when there is none.
C22_DbAddOnceAfterAllUnits ==
    [][/\ (addPc = "unit" /\ buildPc = "err" /\ addPc' # addPc)
          => /\ Logs("build_err")
             /\ addPc' = "units"
             /\ built_pkgs' = built_pkgs
       /\ (addPc = "unit" /\ buildPc = "ok" /\ addPc' # addPc)
          => built_pkgs' = built_pkgs \o builtPkgs
       /\ built_pkgs' # built_pkgs => (addPc = "unit" /\ buildPc = "ok")
       /\ pkgbuilds' # pkgbuilds
          => (addPc = "unit" /\ pkgbuilds' = Tail(pkgbuilds)
              /\ Cardinality(EventsOf(repoLog, "build")) + Len(pkgbuilds)
                    = Cardinality(EventsOf(repoLog', "build")) + Len(pkgbuilds') + 1)
       /\ (addPc = "units" /\ pkgbuilds # <<>>) => (Logs("build") /\ addPc' = "unit")
       /\ Logs("db_add")
          => /\ pkgbuilds = <<>>
             /\ EventsOf(repoLog, "db_add") = {}
             /\ built_pkgs # <<>>
             /\ repoLog'[Len(repoLog')].pkgs = built_pkgs]_vars

C22_Witness ==
    /\ addPc = "ok"
    /\ Len(repoLog) = 6
    /\ [i \in 1..6 |-> repoLog[i].ev]
          = <<"build", "makepkg", "build_err", "build", "makepkg", "db_add">>
    /\ repoLog[6].pkgs = built_pkgs
    /\ \A f \in Range(built_pkgs) : EntryOf(f) \in db

\* Signing is requested and no GPG key is configured.
KeyMissing == sign = <<TRUE>> /\ ~gpgKey

\* C23: Repo::add with sign = true and Pkg::build with sign = Some(true)
\* return an error when no GPG key is configured, before a build is run and
\* before a file of the repository directory or an entry of the DB is changed.
C23_FailFastOnMissingKey ==
    [][KeyMissing
       => /\ addPc = "add" => addPc' = "err"
          /\ (addPc = "idle" /\ buildPc = "build") => buildPc' = "err"
          /\ files' = files
          /\ db' = db
          /\ pkgDir' = pkgDir
          /\ repoLog' = repoLog]_vars

\* Pkg::build, called with Some(true) and without a key, has returned Err.
BuildFailedFast ==
    /\ KeyMissing
    /\ addPc = "idle"
    /\ buildPc = "err"
    /\ pkgFiles # <<>>
    /\ files # {}
    /\ repoLog = <<>>

C23_Witness ==
    /\ KeyMissing
    /\ addPc = "err"
    /\ pkgbuilds # <<>>
    /\ files # {}
    /\ repoLog = <<>>

\* The names sign and remove process: the requested names the DB contains.
Selected == IF pkg_names = <<>> THEN DbNames(db) ELSE Range(pkg_names[1]) \cap DbNames(db)

\* C24: a signing error is fatal for sign: when Repo::sign has returned
\* Ok(()), no signing of a selected package has failed, and every selected
\* package has its signature file.
C24_SignErrorIsFatal ==
    cmdPc = "ok"
       => /\ EventsOf(repoLog, "sign_err") = {}
          /\ \A n \in Selected : SigFile(PkgOf(n, db)) \in files

\* The entries of the update list for the name n.
UpdsOf(upds, n) == {i \in DOMAIN upds : upds[i].name = n}

\* C25: pkg_updates has an entry for a name of pkg_name2base iff the version
\* of the DB is vercmp-less than the version AUR has for the package base of
\* the name; a name with an equal or a newer version in the DB has no entry;
\* an entry has the version of the DB as old_version and the version of AUR
\* as new_version.
C25_UpdateIffStrictlyLess ==
    [][(updPc = "pkgs_to_be_updated" /\ ~force_no_version /\ updPc' # "err")
       => /\ \A p \in pkg_name2base :
                LET old == DbVersion(p.name, db)
                    new == InfoVersion(p.pkg_base, pkg_infos)
                IN  /\ Cardinality(UpdsOf(pkg_upds', p.name))
                          = IF VerCmp(old, new) = "Less" THEN 1 ELSE 0
                    /\ \A i \in UpdsOf(pkg_upds', p.name) :
                          /\ pkg_upds'[i].old_version = old
                          /\ pkg_upds'[i].new_version = new
                          /\ pkg_upds'[i].pkg_base = p.pkg_base
          /\ \A i \in DOMAIN pkg_upds' : \E p \in pkg_name2base : p.name = pkg_upds'[i].name]_vars

\* pkg_updates has returned an entry for a package that is older in the DB and
\* none for a package that is equal and for one that is newer in the DB.
C25_Witness ==
    /\ updPc = "prepare"
    /\ ~force_no_version
    /\ Len(pkg_upds) = 1
    /\ pkg_upds[1].old_version = Version(0, <<1, 9>>, 1)
    /\ pkg_upds[1].new_version = Version(0, <<1, 10>>, 1)
    /\ Cardinality(pkg_name2base) = 3
    /\ \E p \in pkg_name2base :
          VerCmp(DbVersion(p.name, db), InfoVersion(p.pkg_base, pkg_infos)) = "Equal"
    /\ \E p \in pkg_name2base :
          VerCmp(DbVersion(p.name, db), InfoVersion(p.pkg_base, pkg_infos)) = "Greater"

\* The calls of Pkg::build for the PKGBUILD file of the package base b.
BuildCalls(log, b) ==
    {i \in DOMAIN log : log[i].ev \in {"build", "build_err"} /\ log[i].pkgs = <<b>>}

\* The package repository of the package base b was cloned.
Cloned(log, b) == \E i \in DOMAIN log : log[i].ev = "git_clone" /\ log[i].pkgs = <<b>>

\* Both packages of the split package are in pkg_name2base and older in the DB.
BothHaveUpdate ==
    \A n \in {<<"pkg", "a">>, <<"pkg", "b">>} :
       /\ [name |-> n, pkg_base |-> "base1"] \in pkg_name2base
       /\ VerCmp(DbVersion(n, db), InfoVersion("base1", pkg_infos)) = "Less"

\* The update list has an entry for both packages of the split package.
BothReported(upds) ==
    \A n \in {<<"pkg", "a">>, <<"pkg", "b">>} :
       \E i \in UpdsOf(upds, n) : upds[i].pkg_base = "base1"

Logged(log, e, n) == \E i \in DOMAIN log : log[i].ev = e /\ log[i].pkgs = <<n>>

\* The names repo-remove was run with.
RepoRemoved(log) ==
    UNION {Range(log[i].pkgs) : i \in EventsOf(log, "repo_remove")}

\* C27: the dependencies never block a removal. With no_confirm every valid
\* name is handed to remove_pkgs without a question; without no_confirm a
\* name other packages depend on is handed on iff the user confirms, a name
\* nothing depends on is handed on without a question, and after an answer of
\* no the remaining names are still processed. When remove has returned
\* Ok(()), a requested name is still in the DB only if it was declined or its
\* files could not be deleted, and a declined name is still in the DB.
C27_DepsNeverBlock ==
    [][/\ (cmdPc = "filter" /\ valid_pkg_names # <<>>)
          => LET n == Head(valid_pkg_names) IN
             /\ valid_pkg_names' = Tail(valid_pkg_names)
             /\ cmdPc' = "filter"
             /\ (no_confirm \/ n \notin deps)
                => (to_be_removed' = Append(to_be_removed, n) /\ repoLog' = repoLog)
             /\ (~no_confirm /\ n \in deps)
                => \/ Logs("confirmed") /\ to_be_removed' = Append(to_be_removed, n)
                   \/ Logs("declined") /\ to_be_removed' = to_be_removed
       /\ cmdPc' = "ok"
          => \A n \in Range(pkg_names[1]) :
                /\ n \in DbNames(db')
                   => (Logged(repoLog', "declined", n) \/ Logged(repoLog', "rm_err", n))
                /\ Logged(repoLog', "declined", n)
                   => (n \in DbNames(db') /\ n \in deps /\ ~no_confirm)]_vars

\* The question was answered with no for a and a-b was removed without a
\* question.
C27_Witness ==
    /\ cmdPc = "ok"
    /\ ~no_confirm
    /\ deps = {<<"a">>}
    /\ pkg_names = << <<(<<"a">>), <<"a", "b">>>> >>
    /\ Logged(repoLog, "declined", <<"a">>)
    /\ <<"a">> \in DbNames(db)
    /\ <<"a", "b">> \notin DbNames(db)
    /\ RepoRemoved(repoLog) = {<<"a", "b">>}
    /\ Len(repoLog) = 2

\* With no_confirm a package other packages depend on was removed without a
\* question.
RemovedWithoutQuestion ==
    /\ cmdPc = "ok"
    /\ no_confirm
    /\ deps = {<<"a">>}
    /\ RepoRemoved(repoLog) = {<<"a">>}
    /\ <<"a">> \notin DbNames(db)
    /\ Len(repoLog) = 1

\* C28: when remove has returned Ok(()), a name repo-remove was run with has
\* no entry in the DB and no package file and no signature file in the
\* repository directory; the files are deleted before the DB is changed; the
\* DB is changed by one run of repo-remove with all names whose files
\* remove_from_dir has deleted.
C28_RemoveDeletesFilesThenEntries ==
    [][/\ cmdPc' = "ok"
          => \A n \in RepoRemoved(repoLog') :
                /\ n \notin DbNames(db')
                /\ FilesOfPkg(BuildFile(n, ListedVersion), files') = {}
       /\ files' # files => (db' = db /\ EventsOf(repoLog, "repo_remove") = {})
       /\ db' # db => Logs("repo_remove")
       /\ Logs("repo_remove")
          => /\ EventsOf(repoLog, "repo_remove") = {}
             /\ repoLog'[Len(repoLog')].pkgs = to_be_removed
             /\ files' = files]_vars

\* The name ends with a hyphen followed by a VCS suffix.
EndsWithVcsSuffix(n) == Len(n) >= 2 /\ Last(n) \in VcsSuffixes

\* C31: pkg_name2base_no_version returns the pair of exactly the names of
\* pkg_name2base that end with a hyphen followed by a configured VCS suffix;
\* versions are not compared; a name that has the suffix only in its middle
\* is not returned.
C31_NoVersionIffSuffix ==
    [][(updPc = "pkgs_to_be_updated" /\ force_no_version)
       => /\ Len(pkg_upds') = Cardinality(Range(pkg_upds'))
          /\ Range(pkg_upds') = {p \in pkg_name2base : EndsWithVcsSuffix(p.name)}]_vars

\* C32: for every remote server (rsync, S3, GCS) download_repo and
\* upload_repo check that the required package is installed before the sync
\* command is run: when it is not installed the call returns an error, no
\* sync command is started and neither directory changes. For the local
\* server is_remote is false and both calls succeed without any effect.
C32_SyncChecksToolFirst ==
    [][(syncPc \in {"download", "upload"})
       => ((repoLog' # repoLog => PkgNameOf(server) \in installed)
           /\ ((is_remote(server) /\ PkgNameOf(server) \notin installed)
                  => (syncPc' = "err" /\ UNCHANGED <<files, remoteDir, repoLog>>))
           /\ (~is_remote(server)
                  => (/\ ~remote
                      /\ syncPc' = IF syncPc = "download" THEN "work" ELSE "ok"
                      /\ UNCHANGED <<files, remoteDir, repoLog>>)))]_vars

\* The download from a GCS remote failed without any command, because
\* google-cloud-cli is not installed.
C32_Witness ==
    /\ server = "gs"
    /\ "google-cloud-cli" \notin installed
    /\ "rsync" \in installed
    /\ syncPc = "err"
    /\ repoLog = <<>>
    /\ files # remoteDir

DbConsistent == \A e \in db : MetaDataPath(e.name, e.version, e.arch, PkgExt) \in files

\* C34: add and update preserve the consistency of DB and files. The units
\* start with every DB entry having its package file; when the operation has
\* terminated, also after a build unit failed with some of its outputs
\* processed or after the call of repo-add failed, every DB entry still has
\* its exact package file in the repository directory.
C34_DbEntriesKeepTheirFiles ==
    addPc \in {"ok", "err"} => DbConsistent

\* p ran the download or the upload of a remote repository in this step.
Synced(p) ==
    /\ remote
    /\ pc[p] \in {"download", "upload"}
    /\ Len(trace'[p]) > Len(trace[p])
    /\ Last(trace'[p]) \in {"download", "upload"}

\* C35: the download into the mirror directory and the upload from it to the
\* remote are executed only by a process that holds the lock of the
\* repository at that moment, in every operation that syncs, list included.
C35_SyncOnlyUnderLock ==
    [][\A p \in Procs : Synced(p) => (Holds(p) /\ LockedBy(p))]_vars

\* C36: Pkg::build with sign = None (update), when the sticky signing
\* decided that the current output is to be signed and no GPG key is
\* configured: the error of the missing key is raised before the old
\* package file of that output is removed and before the new file is moved
\* in, so the steps for that output leave the repository directory unchanged.
C36_MissingKeyBeforeRemoveAndMove ==
    [][(IsUpdate /\ toBeSigned /\ ~gpgKey /\ buildPc \in {"remove", "move", "sign"})
       => files' = files]_vars

\* The next requested package is in the DB, but its package file is not in
\* the repository directory.
NextFileMissing ==
    /\ cmdPc \in {"remove_pkgs", "pkgs"}
    /\ valid_pkg_names # <<>>
    /\ PkgOf(Head(valid_pkg_names), db) \notin files

\* C37: remove and sign handle a requested package that is in the DB but
\* whose package file is missing from the mirror as an error of that
\* package: the process does not panic and the operation does not end, it
\* goes on with the remaining requested packages (and later uploads).
C37_MissingFileIsPerPackageError ==
    [][NextFileMissing => (cmdPc' = cmdPc /\ valid_pkg_names' = Tail(valid_pkg_names))]_vars

\* The requested names AUR resolved to a package base.
Resolved == {n \in Range(pkg_names[1]) : \E i \in pkg_name2base : i.name = n}

\* The repository of the package base of n was cloned for a build, or an
\* error that names n or its package base was reported.
BuiltOrReported(n) ==
    \E i \in 1..Len(repoLog) :
        /\ repoLog[i].ev \in {"git_clone", "clone_err", "aur_err"}
        /\ repoLog[i].pkgs \in {<<n>>, <<NameOfBase(BaseOf(n))>>}

\* C38: in add, every requested AUR package name that AUR resolves to a
\* package base is built through that base, also when the name differs from
\* the name of its base (member of a split package): when the repositories
\* have been cloned no resolved name was dropped without a build attempt or
\* an error message.
C38_ResolvedNameBuiltOrReported ==
    updPc \in {"from_aur", "build"} => \A n \in Resolved : BuiltOrReported(n)

\* add_pkgs_to_db or remove_pkgs_from_db is called with a list that is not
\* empty.
DbCall ==
    \/ addPc = "add_pkgs_to_db" /\ built_pkgs # <<>>
    \/ cmdPc = "remove_pkgs_from_db" /\ to_be_removed # <<>>

\* repo-add or repo-remove is run in this step.
DbCommandRuns ==
    /\ Len(repoLog') = Len(repoLog) + 1
    /\ Last(repoLog').ev \in {"db_add", "repo_remove"}

\* C39: whenever add_pkgs_to_db or remove_pkgs_from_db runs the database
\* command for a repository with sign_db = false whose DB is signed, the
\* signature files of the DB have been removed from the mirror before the
\* command runs, so that the DB is not signed afterwards; this for every
\* configuration, also one whose db_name is not the name of the repository.
C39_SigFilesRemovedBeforeDbCommand ==
    [][(DbCall /\ ~sign_db /\ dbSigned /\ DbCommandRuns) => ~dbSigned']_vars

AddRefused ==
    /\ sign_db /\ ~gpgKey
    /\ addPc = "err" /\ built_pkgs # <<>>
    /\ repoLog = <<>>

====
